---- MODULE Spec2Model ----
(***************************************************************************)
(* A model of bugwarrior: the `pull` command (bugwarrior/command.py) with  *)
(* its lock file, and the service adapters that turn tracker records into  *)
(* taskwarrior records (bugwarrior/services/{trac,logseq,github,           *)
(* bitbucket}.py).                                                         *)
(***************************************************************************)
EXTENDS Integers, Sequences, FiniteSets, TLC

VARIABLES
    \* ---- pull (command.py) ----
    pc,           \* pc[p]: where process p stands inside pull()
    config,       \* config[p]: the configuration of p: "none", "loaded" or "failed"
    lockfile,     \* pid recorded in <data.path>/bugwarrior.lockfile, NoProc if absent
    waited,       \* waited[p]: seconds p has slept inside lockfile.acquire(timeout=10)
    called,       \* called[p]: the calls p has made so far
    logged,       \* logged[p]: the log messages p has written
    exitStatus,   \* exitStatus[p]: process exit status, NotExited while running
    exc,          \* exc[p]: the exception in flight in p ("none" if none)
    targetState,  \* targetState[p][t]: what became of the adapter of target t
    wrote,        \* wrote[p]: p has mutated the local task store
    cleared,      \* number of times the user removed a stale lock file by hand
    issue_obj,    \* the Issue object being normalized: service, record, extra, config
    task,         \* the outcome of its to_taskwarrior()
    ghConfig,     \* GithubService.config
    ghSearch,     \* the items GitHub's search returns for the configured query
    ghAssigned,   \* the items GitHub lists as assigned to the authenticated user
    ghPhase,      \* where GithubService.issues() stands
    issues,       \* the local `issues` of GithubService.issues()
    yielded,      \* the Issue objects issues() has yielded so far
    \* ---- TracService, BitbucketService, LogseqService: issues() ----
    svc,          \* the service at work: its config and what its tracker holds
    svcPhase,     \* where its issues() stands
    svcIssues,    \* the local list `issues` (`pull_requests`) of issues()
    svcYielded,   \* the Issue objects issues() has yielded so far
    svcExc,       \* the exception that left issues() ("none" if none)
    \* ---- synchronize (bugwarrior/db.py) ----
    store,        \* the local task store: store[n] is the n-th task
    incoming,     \* the aggregated issues of the run
    history,      \* one entry per synchronize run so far
    \* ---- a function under test ----
    arg,          \* the function and its arguments
    result        \* what it returned ("pending" before the call)

pullVars == <<pc, config, lockfile, waited, called, logged, exitStatus, exc,
              targetState, wrote, cleared>>
normVars == <<issue_obj, task>>
ghVars == <<ghConfig, ghSearch, ghAssigned, ghPhase, issues, yielded>>
svcVars == <<svc, svcPhase, svcIssues, svcYielded, svcExc>>
dbVars == <<store, incoming, history>>
fnVars == <<arg, result>>
vars == <<pullVars, normVars, ghVars, svcVars, dbVars, fnVars>>

-----------------------------------------------------------------------------
(* Bounds *)

\* number of pull processes started against the same data path
NumProcs == 2
\* number of configured targets (one adapter each)
NumTargets == 2
\* how many times the user clears a stale lock file by hand
MaxClears == 1
\* number of items (issues, pull requests) GitHub knows of
NumGhItems == 2

(* Program constants *)

\* lockfile.acquire(timeout=10)
LockTimeoutSecs == 10

Procs == 1..NumProcs
Targets == 1..NumTargets
NoProc == 0
NotExited == -1

-----------------------------------------------------------------------------
(* pull: bugwarrior/command.py                                             *)

\* The service configured for target t: odd targets are Trac, even ones Logseq.
TargetService(t) == IF t % 2 = 1 THEN "trac" ELSE "logseq"

\* What a failing issues() of a service raises.
\*   trac.py:165-166    raise RuntimeError("Trac responded with %s" % resp)
\*   logseq.py:49-51    log.fatal(...); exit()   -- raises SystemExit
AdapterFailure(service) ==
    IF service = "trac" THEN "RuntimeError" ELSE "SystemExit"

\* The aggregator catches whatever an adapter raises (spec 4.2: "a failure in
\* one adapter ... is caught, logged with the target name, and does not
\* prevent other adapters from completing").
AggregatorCatches(e) == e \in {"RuntimeError", "SystemExit", "Other"}

\* No pull has been started.
PullIdle ==
    /\ pc = [p \in Procs |-> "idle"]
    /\ config = [p \in Procs |-> "none"]
    /\ lockfile = NoProc
    /\ waited = [p \in Procs |-> 0]
    /\ called = [p \in Procs |-> {}]
    /\ logged = [p \in Procs |-> {}]
    /\ exitStatus = [p \in Procs |-> NotExited]
    /\ exc = [p \in Procs |-> "none"]
    /\ targetState = [p \in Procs |-> [t \in Targets |-> "idle"]]
    /\ wrote = [p \in Procs |-> FALSE]
    /\ cleared = 0

\* No issue is being normalized.
NoIssue == [service |-> "none"]
Pending == [exc |-> "pending"]
NormalizerIdle ==
    /\ issue_obj = NoIssue
    /\ task = Pending

\* No GithubService is at work.
GithubIdle ==
    /\ ghConfig = <<>>
    /\ ghSearch = {}
    /\ ghAssigned = {}
    /\ ghPhase = "off"
    /\ issues = <<>>
    /\ yielded = <<>>

\* No other service is at work.
ServicesIdle ==
    /\ svc = [service |-> "none"]
    /\ svcPhase = "off"
    /\ svcIssues = <<>>
    /\ svcYielded = <<>>
    /\ svcExc = "none"

\* No synchronize has run; the store is empty.
StoreIdle ==
    /\ store = <<>>
    /\ incoming = {}
    /\ history = <<>>

\* No function is under test.
FnIdle ==
    /\ arg = [fn |-> "none"]
    /\ result = Pending

InitPull ==
    PullIdle /\ NormalizerIdle /\ GithubIdle /\ ServicesIdle /\ StoreIdle /\ FnIdle

\* The user runs `bugwarrior pull`.
pull(p) ==
    /\ pc[p] = "idle"
    /\ pc' = [pc EXCEPT ![p] = "load_config"]
    /\ UNCHANGED <<config, lockfile, waited, called, logged, exitStatus, exc,
                   targetState, wrote, cleared>>
    /\ UNCHANGED <<normVars, ghVars, svcVars, dbVars, fnVars>>

\* sys.exit(1), or an exception that leaves pull(): the process ends with
\* status 1.
Exit1(p, why, msgs) ==
    /\ pc' = [pc EXCEPT ![p] = "exited"]
    /\ exitStatus' = [exitStatus EXCEPT ![p] = 1]
    /\ exc' = [exc EXCEPT ![p] = why]
    /\ logged' = [logged EXCEPT ![p] = @ \cup msgs]

\* A slip: the OSError handler logs and forgets sys.exit(1), so pull goes on
\* without a configuration.
try_load_config_NoExit(p, outcome) ==
    /\ pc[p] = "load_config"
    /\ called' = [called EXCEPT ![p] = @ \cup {"load_config"}]
    /\ pc' = [pc EXCEPT ![p] = "acquire"]
    /\ config' = [config EXCEPT ![p] = IF outcome = "ok" THEN "loaded" ELSE "failed"]
    /\ logged' = [logged EXCEPT ![p] =
          IF outcome = "ok" THEN @ ELSE @ \cup {"Could not load configuration"}]
    /\ UNCHANGED <<exitStatus, exc, lockfile, waited, targetState, wrote, cleared>>
    /\ UNCHANGED <<normVars, ghVars, svcVars, dbVars, fnVars>>

\* command.py:32-44 and 97-98.  load_config returns, raises OSError (caught
\* by _try_load_config: log.critical and sys.exit(1)), raises RuntimeError
\* (caught at command.py:121) or raises anything else (leaves pull()).
try_load_config(p, outcome) ==
    /\ pc[p] = "load_config"
    /\ called' = [called EXCEPT ![p] = @ \cup {"load_config"}]
    /\ IF outcome = "ok"
       THEN /\ pc' = [pc EXCEPT ![p] = "acquire"]
            /\ config' = [config EXCEPT ![p] = "loaded"]
            /\ UNCHANGED <<exitStatus, exc, logged>>
       ELSE /\ config' = [config EXCEPT ![p] = "failed"]
            /\ Exit1(p, outcome,
                  CASE outcome = "OSError" -> {"Could not load configuration"}
                    [] outcome = "RuntimeError" -> {"Aborted"}
                    [] OTHER -> {})
    /\ UNCHANGED <<lockfile, waited, targetState, wrote, cleared>>
    /\ UNCHANGED <<normVars, ghVars, svcVars, dbVars, fnVars>>

\* A slip: the lock file is written without O_EXCL, whether or not it exists.
AcquireLock_NotExclusive(p) ==
    /\ pc[p] = "acquire"
    /\ lockfile' = p
    /\ pc' = [pc EXCEPT ![p] = "locked"]
    /\ called' = [called EXCEPT ![p] = @ \cup {"acquire"}]
    /\ waited' = [waited EXCEPT ![p] = 0]
    /\ UNCHANGED <<config, logged, exitStatus, exc, targetState, wrote,
                   cleared>>
    /\ UNCHANGED <<normVars, ghVars, svcVars, dbVars, fnVars>>

\* command.py:102-103, lockfile.acquire(timeout=10): the lock file does not
\* exist and is created atomically with the pid of p.
AcquireLock(p) ==
    /\ pc[p] = "acquire"
    /\ lockfile = NoProc
    /\ lockfile' = p
    /\ pc' = [pc EXCEPT ![p] = "locked"]
    /\ called' = [called EXCEPT ![p] = @ \cup {"acquire"}]
    /\ waited' = [waited EXCEPT ![p] = 0]
    /\ UNCHANGED <<config, logged, exitStatus, exc, targetState, wrote,
                   cleared>>
    /\ UNCHANGED <<normVars, ghVars, svcVars, dbVars, fnVars>>

\* command.py:103: the lock file exists and the timeout has not passed:
\* acquire sleeps timeout/10 = 1 second and tries again.
AcquireWait(p) ==
    /\ pc[p] = "acquire"
    /\ lockfile # NoProc
    /\ waited[p] < LockTimeoutSecs
    /\ waited' = [waited EXCEPT ![p] = @ + 1]
    /\ UNCHANGED <<config, pc, lockfile, called, logged, exitStatus, exc,
                   targetState, wrote, cleared>>
    /\ UNCHANGED <<normVars, ghVars, svcVars, dbVars, fnVars>>

\* A slip: the LockTimeout handler logs and forgets sys.exit(1): pull returns
\* normally, with status 0.
AcquireTimeout_NoExit(p) ==
    /\ pc[p] = "acquire"
    /\ lockfile # NoProc
    /\ waited[p] >= LockTimeoutSecs
    /\ called' = [called EXCEPT ![p] = @ \cup {"acquire"}]
    /\ pc' = [pc EXCEPT ![p] = "exited"]
    /\ exitStatus' = [exitStatus EXCEPT ![p] = 0]
    /\ exc' = [exc EXCEPT ![p] = "LockTimeout"]
    /\ logged' = [logged EXCEPT ![p] =
          @ \cup {"Your taskrc repository is currently locked"}]
    /\ waited' = [waited EXCEPT ![p] = 0]
    /\ UNCHANGED <<config, lockfile, targetState, wrote, cleared>>
    /\ UNCHANGED <<normVars, ghVars, svcVars, dbVars, fnVars>>

\* A slip: the LockTimeout handler calls lockfile.break_lock() before it exits.
AcquireTimeout_BreaksLock(p) ==
    /\ pc[p] = "acquire"
    /\ lockfile # NoProc
    /\ waited[p] >= LockTimeoutSecs
    /\ called' = [called EXCEPT ![p] = @ \cup {"acquire"}]
    /\ Exit1(p, "LockTimeout", {"Your taskrc repository is currently locked"})
    /\ waited' = [waited EXCEPT ![p] = 0]
    /\ lockfile' = NoProc
    /\ UNCHANGED <<config, targetState, wrote, cleared>>
    /\ UNCHANGED <<normVars, ghVars, svcVars, dbVars, fnVars>>

\* command.py:103 and 112-120: the lock file still exists when the timeout
\* has passed: acquire raises LockTimeout, pull logs the critical message
\* naming the lock file and calls sys.exit(1).
AcquireTimeout(p) ==
    /\ pc[p] = "acquire"
    /\ lockfile # NoProc
    /\ waited[p] >= LockTimeoutSecs
    /\ called' = [called EXCEPT ![p] = @ \cup {"acquire"}]
    /\ Exit1(p, "LockTimeout", {"Your taskrc repository is currently locked"})
    /\ waited' = [waited EXCEPT ![p] = 0]
    /\ UNCHANGED <<config, lockfile, targetState, wrote, cleared>>
    /\ UNCHANGED <<normVars, ghVars, svcVars, dbVars, fnVars>>

\* A slip: aggregate_issues is called before the try of the finally clause,
\* so an exception it raises skips lockfile.release().
aggregate_issues_OutsideTry(p, outcome) ==
    /\ pc[p] = "locked"
    /\ called' = [called EXCEPT ![p] = @ \cup {"aggregate_issues"}]
    /\ IF outcome = "ok"
       THEN /\ pc' = [pc EXCEPT ![p] = "aggregate"]
            /\ UNCHANGED exc
       ELSE /\ pc' = [pc EXCEPT ![p] = "finish"]
            /\ exc' = [exc EXCEPT ![p] = outcome]
    /\ UNCHANGED <<config, lockfile, waited, logged, exitStatus, targetState, wrote,
                   cleared>>
    /\ UNCHANGED <<normVars, ghVars, svcVars, dbVars, fnVars>>

\* command.py:106: aggregate_issues(config, main_section, debug) is called;
\* it starts the adapters, or raises before any adapter ran.
aggregate_issues(p, outcome) ==
    /\ pc[p] = "locked"
    /\ called' = [called EXCEPT ![p] = @ \cup {"aggregate_issues"}]
    /\ IF outcome = "ok"
       THEN /\ pc' = [pc EXCEPT ![p] = "aggregate"]
            /\ UNCHANGED exc
       ELSE /\ pc' = [pc EXCEPT ![p] = "release"]
            /\ exc' = [exc EXCEPT ![p] = outcome]
    /\ UNCHANGED <<config, lockfile, waited, logged, exitStatus, targetState, wrote,
                   cleared>>
    /\ UNCHANGED <<normVars, ghVars, svcVars, dbVars, fnVars>>

\* One adapter's issues() runs to its end.
AdapterCompletes(p, t) ==
    /\ pc[p] = "aggregate"
    /\ targetState[p][t] = "idle"
    /\ targetState' = [targetState EXCEPT ![p][t] = "ok"]
    /\ UNCHANGED <<config, pc, lockfile, waited, called, logged, exitStatus, exc,
                   wrote, cleared>>
    /\ UNCHANGED <<normVars, ghVars, svcVars, dbVars, fnVars>>

\* One adapter's issues() raises (trac.py:165-166, logseq.py:49-51); the
\* aggregator catches and logs it.
AdapterFails(p, t) ==
    /\ pc[p] = "aggregate"
    /\ targetState[p][t] = "idle"
    /\ LET e == AdapterFailure(TargetService(t)) IN
       IF AggregatorCatches(e)
       THEN /\ targetState' = [targetState EXCEPT ![p][t] = "failed"]
            /\ logged' = [logged EXCEPT ![p] = @ \cup {"Worker failed"}]
            /\ UNCHANGED <<pc, exc>>
       ELSE /\ targetState' = [targetState EXCEPT ![p][t] = "failed"]
            /\ pc' = [pc EXCEPT ![p] = "release"]
            /\ exc' = [exc EXCEPT ![p] = e]
            /\ UNCHANGED logged
    /\ UNCHANGED <<config, lockfile, waited, called, exitStatus, wrote, cleared>>
    /\ UNCHANGED <<normVars, ghVars, svcVars, dbVars, fnVars>>

\* command.py:109: synchronize(issue_generator, config, main_section, dry_run)
\* is called once every adapter is through.
synchronize(p) ==
    /\ pc[p] = "aggregate"
    /\ \A t \in Targets : targetState[p][t] # "idle"
    /\ pc' = [pc EXCEPT ![p] = "synchronize"]
    /\ called' = [called EXCEPT ![p] = @ \cup {"synchronize"}]
    /\ UNCHANGED <<config, lockfile, waited, logged, exitStatus, exc, targetState,
                   wrote, cleared>>
    /\ UNCHANGED <<normVars, ghVars, svcVars, dbVars, fnVars>>

\* synchronize returns or raises; unless pull was given --dry-run it has
\* written to the local task store.
SynchronizeEnds(p, outcome, dry_run) ==
    /\ pc[p] = "synchronize"
    /\ pc' = [pc EXCEPT ![p] = "release"]
    /\ exc' = [exc EXCEPT ![p] = outcome]
    /\ wrote' = [wrote EXCEPT ![p] = ~dry_run]
    /\ UNCHANGED <<config, lockfile, waited, called, logged, exitStatus, targetState,
                   cleared>>
    /\ UNCHANGED <<normVars, ghVars, svcVars, dbVars, fnVars>>

\* A slip: release() sits after synchronize instead of in a finally clause,
\* so it is skipped when something went wrong on the way.
ReleaseLock_NotFinally(p) ==
    /\ pc[p] = "release"
    /\ LET clean == exc[p] = "none" /\ \A t \in Targets : targetState[p][t] = "ok" IN
       /\ lockfile' = IF lockfile = p /\ clean THEN NoProc ELSE lockfile
       /\ called' = [called EXCEPT ![p] = IF clean THEN @ \cup {"release"} ELSE @]
    /\ pc' = [pc EXCEPT ![p] = "finish"]
    /\ UNCHANGED <<config, waited, logged, exitStatus, exc, targetState, wrote,
                   cleared>>
    /\ UNCHANGED <<normVars, ghVars, svcVars, dbVars, fnVars>>

\* command.py:110-111: finally: lockfile.release() removes the lock file.
ReleaseLock(p) ==
    /\ pc[p] = "release"
    /\ lockfile' = IF lockfile = p THEN NoProc ELSE lockfile
    /\ called' = [called EXCEPT ![p] = @ \cup {"release"}]
    /\ pc' = [pc EXCEPT ![p] = "finish"]
    /\ UNCHANGED <<config, waited, logged, exitStatus, exc, targetState, wrote,
                   cleared>>
    /\ UNCHANGED <<normVars, ghVars, svcVars, dbVars, fnVars>>

\* command.py:121-123 and the end of pull(): RuntimeError is logged and
\* turned into sys.exit(1); any other exception leaves pull() (status 1);
\* SystemExit from a bare exit() and a normal return end with status 0.
\* The process is gone, and its memory (targetState) with it.
Finish(p) ==
    /\ pc[p] = "finish"
    /\ pc' = [pc EXCEPT ![p] = "exited"]
    /\ exitStatus' = [exitStatus EXCEPT ![p] =
          IF exc[p] \in {"none", "SystemExit"} THEN 0 ELSE 1]
    /\ logged' = [logged EXCEPT ![p] =
          IF exc[p] = "RuntimeError" THEN @ \cup {"Aborted"} ELSE @]
    /\ targetState' = [targetState EXCEPT ![p] = [t \in Targets |-> "idle"]]
    /\ UNCHANGED <<config, lockfile, waited, called, exc, wrote, cleared>>
    /\ UNCHANGED <<normVars, ghVars, svcVars, dbVars, fnVars>>

\* The process is killed while it holds the lock: the lock file stays, the
\* process's memory (exc, targetState) is gone.
Killed(p) ==
    /\ pc[p] \in {"locked", "aggregate", "synchronize", "release"}
    /\ pc' = [pc EXCEPT ![p] = "dead"]
    /\ exc' = [exc EXCEPT ![p] = "none"]
    /\ targetState' = [targetState EXCEPT ![p] = [t \in Targets |-> "idle"]]
    /\ UNCHANGED <<config, lockfile, waited, called, logged, exitStatus, wrote,
                   cleared>>
    /\ UNCHANGED <<normVars, ghVars, svcVars, dbVars, fnVars>>

\* command.py:113-118: the user follows the critical message and removes the
\* lock file, being sure no other bugwarrior process is running.
RemoveLockFile ==
    /\ lockfile # NoProc
    /\ pc[lockfile] = "dead"
    /\ cleared < MaxClears
    /\ lockfile' = NoProc
    /\ cleared' = cleared + 1
    /\ UNCHANGED <<config, pc, waited, called, logged, exitStatus, exc, targetState,
                   wrote>>
    /\ UNCHANGED <<normVars, ghVars, svcVars, dbVars, fnVars>>

NextPull ==
    \/ \E p \in Procs : pull(p)
    \/ \E p \in Procs, o \in {"ok", "OSError", "RuntimeError", "Other"} :
          try_load_config(p, o)
    \/ \E p \in Procs : AcquireLock(p)
    \/ \E p \in Procs : AcquireWait(p)
    \/ \E p \in Procs : AcquireTimeout(p)
    \/ \E p \in Procs, o \in {"ok", "RuntimeError", "Other"} :
          aggregate_issues(p, o)
    \/ \E p \in Procs, t \in Targets : AdapterCompletes(p, t)
    \/ \E p \in Procs, t \in Targets : AdapterFails(p, t)
    \/ \E p \in Procs : synchronize(p)
    \/ \E p \in Procs, o \in {"none", "RuntimeError", "Other"} :
          \E dr \in BOOLEAN : SynchronizeEnds(p, o, dr)
    \/ \E p \in Procs : ReleaseLock(p)
    \/ \E p \in Procs : Finish(p)
    \/ \E p \in Procs : Killed(p)
    \/ RemoveLockFile

SpecPull == InitPull /\ [][NextPull]_vars

-----------------------------------------------------------------------------
(* Python values                                                           *)

\* None, where the other values of the field are strings.
None == "None"

\* d.get(k, default) and `k in d` of a dict d.
Has(d, k) == k \in DOMAIN d
Get(d, k, default) == IF k \in DOMAIN d THEN d[k] ELSE default

\* The outcome of a call: an exception, or a returned value.
Raised(e) == [exc |-> e]
Returned(v) == [exc |-> "none", value |-> v]

\* A string is a sequence of atoms: single characters, and words whose
\* characters no operation looks into ("SCHEDULED:", "2024-06-20", ...).

\* str.replace(old, new): every non-overlapping occurrence, left to right.
RECURSIVE Replace(_, _, _)
Replace(str, old, new) ==
    IF Len(str) < Len(old) THEN str
    ELSE IF SubSeq(str, 1, Len(old)) = old
         THEN new \o Replace(SubSeq(str, Len(old) + 1, Len(str)), old, new)
         ELSE <<Head(str)>> \o Replace(Tail(str), old, new)

\* str.split(sep) for a one-character sep: always at least one piece.
RECURSIVE Split(_, _)
Split(str, sep) ==
    LET hits == {i \in 1..Len(str) : str[i] = sep} IN
    IF hits = {} THEN <<str>>
    ELSE LET i == CHOOSE j \in hits : \A k \in hits : j <= k IN
         <<SubSeq(str, 1, i - 1)>> \o Split(SubSeq(str, i + 1, Len(str)), sep)

\* str.startswith(prefix)
StartsWith(str, prefix) ==
    Len(str) >= Len(prefix) /\ SubSeq(str, 1, Len(prefix)) = prefix

-----------------------------------------------------------------------------
(* Trac: bugwarrior/services/trac.py                                       *)

\* trac.py:52-58
TracPriorityMap ==
    [trivial |-> "L", minor |-> "L", major |-> "M", critical |-> "H",
     blocker |-> "H"]

\* trac.py:86-90
TracGetPriority(record, cfg) ==
    Get(TracPriorityMap, Get(record, "priority", None), cfg.default_priority)

\* A slip: the summary is stored where the url belongs.
TracToTaskwarrior_UrlNotCopied(record, extra, cfg) ==
    IF ~({"project", "annotations"} \subseteq DOMAIN extra)
          \/ ~({"url", "summary", "number", "component"} \subseteq DOMAIN record)
    THEN Raised("KeyError")
    ELSE Returned([project |-> extra.project,
                   priority |-> TracGetPriority(record, cfg),
                   annotations |-> extra.annotations,
                   tracurl |-> record.summary,
                   tracsummary |-> record.summary,
                   tracnumber |-> record.number,
                   traccomponent |-> record.component])

\* trac.py:60-70
TracToTaskwarrior(record, extra, cfg) ==
    IF ~({"project", "annotations"} \subseteq DOMAIN extra)
          \/ ~({"url", "summary", "number", "component"} \subseteq DOMAIN record)
    THEN Raised("KeyError")
    ELSE Returned([project |-> extra.project,
                   priority |-> TracGetPriority(record, cfg),
                   annotations |-> extra.annotations,
                   tracurl |-> record.url,
                   tracsummary |-> record.summary,
                   tracnumber |-> record.number,
                   traccomponent |-> record.component])

------------------------------------------------------------------------\* Issue.build_default_description of the base class, for cls='issue':
\* "(bw)Is#<number> - <title> .. <url>".
BuildDefaultDescription(title, url, number) ==
    <<"(bw)", "Is", "#", number, " - ", title, " .. ", url>>

\* trac.py:72-84
TracGetDefaultDescription(record) ==
    IF ~Has(record, "number") /\ ~Has(record, "id") THEN Raised("KeyError")
    ELSE IF ~({"summary", "url"} \subseteq DOMAIN record)
    THEN Raised("KeyError")
    ELSE Returned(BuildDefaultDescription(
                      record.summary, record.url,
                      IF Has(record, "number") THEN record.number
                      ELSE record.id))

-----
(* Bitbucket: bugwarrior/services/bitbucket.py                             *)

\* bitbucket.py:63-69
BitbucketPriorityMap ==
    [trivial |-> "L", minor |-> "L", major |-> "M", critical |-> "H",
     blocker |-> "H"]

\* Issue.get_priority of the base class (bugwarrior/services/__init__.py):
\* the raw priority is looked up in PRIORITY_MAP, the configured default is
\* used when it is absent or unmapped (spec 3, Priority).
IssueGetPriority(map, record, cfg) ==
    Get(map, Get(record, "priority", None), cfg.default_priority)

\* bitbucket.py:71-80
BitbucketToTaskwarrior(record, extra, cfg) ==
    IF ~({"project", "annotations", "url"} \subseteq DOMAIN extra)
          \/ ~({"id", "title"} \subseteq DOMAIN record)
    THEN Raised("KeyError")
    ELSE Returned([project |-> extra.project,
                   priority |-> IssueGetPriority(BitbucketPriorityMap, record, cfg),
                   annotations |-> extra.annotations,
                   bitbucketurl |-> extra.url,
                   bitbucketid |-> record.id,
                   bitbuckettitle |-> record.title])

-----------------------------------------------------------------------------
(* GitHub: bugwarrior/services/github.py, GithubIssue                      *)

\* The date strings GitHub sends, and the datetime each parses to.
GithubDatetime ==
    ("2024-06-20T10:55:00Z" :> "datetime(2024, 6, 20, 10, 55)") @@
    ("2024-07-01T08:00:00Z" :> "datetime(2024, 7, 1, 8, 0)")

\* Issue.parse_date of the base class: None stays None, a date string is
\* parsed into a datetime.
ParseDate(date) == IF date = None THEN None ELSE GithubDatetime[date]

\* github.py:305-307 with Issue.get_tags_from_labels of the base class: the
\* labels become tags only when import_labels_as_tags is set.
GithubGetTags(record, cfg) ==
    LET labels == [n \in 1..Len(Get(record, "labels", <<>>)) |->
                      Get(record, "labels", <<>>)[n].name]
    IN IF cfg.import_labels_as_tags THEN labels ELSE <<>>

\* int() of a bool
IntOfBool(b) == IF b THEN 1 ELSE 0

\* to_taskwarrior taking milestone['title'] whatever the milestone is.
GithubToTaskwarrior_MilestoneSubscripted(record, extra, cfg) ==
    IF ~Has(record, "milestone") THEN Raised("KeyError")
    ELSE IF record.milestone = <<>> THEN Raised("TypeError")
    ELSE
    LET milestone == IF record.milestone # <<>>
                     THEN record.milestone.title ELSE None
        created == ParseDate(Get(record, "created_at", None))
        updated == ParseDate(Get(record, "updated_at", None))
        closed == ParseDate(Get(record, "closed_at", None))
    IN
    IF ~({"project", "type", "body", "namespace"} \subseteq DOMAIN extra)
          \/ ~({"html_url", "repo", "user", "title", "number"}
                  \subseteq DOMAIN record)
    THEN Raised("KeyError")
    ELSE Returned([project |-> extra.project,
                   priority |-> cfg.default_priority,
                   annotations |-> Get(extra, "annotations", <<>>),
                   tags |-> GithubGetTags(record, cfg),
                   entry |-> created,
                   end |-> closed,
                   githuburl |-> record.html_url,
                   githubrepo |-> record.repo,
                   githubtype |-> extra.type,
                   githubuser |-> record.user.login,
                   githubtitle |-> record.title,
                   githubbody |-> extra.body,
                   githubmilestone |-> milestone,
                   githubnumber |-> record.number,
                   githubcreatedon |-> created,
                   githubupdatedat |-> updated,
                   githubclosedon |-> closed,
                   githubnamespace |-> extra.namespace,
                   githubstate |-> Get(record, "state", ""),
                   githubdraft |-> IF Has(record, "draft")
                                   THEN IntOfBool(record.draft) ELSE 0])

\* github.py:272-303.  A null milestone is the empty object <<>>.
GithubToTaskwarrior(record, extra, cfg) ==
    IF ~Has(record, "milestone") THEN Raised("KeyError")
    ELSE
    LET milestone == IF record.milestone # <<>>
                     THEN record.milestone.title ELSE None
        created == ParseDate(Get(record, "created_at", None))
        updated == ParseDate(Get(record, "updated_at", None))
        closed == ParseDate(Get(record, "closed_at", None))
    IN
    IF ~({"project", "type", "body", "namespace"} \subseteq DOMAIN extra)
          \/ ~({"html_url", "repo", "user", "title", "number"}
                  \subseteq DOMAIN record)
    THEN Raised("KeyError")
    ELSE Returned([project |-> extra.project,
                   priority |-> cfg.default_priority,
                   annotations |-> Get(extra, "annotations", <<>>),
                   tags |-> GithubGetTags(record, cfg),
                   entry |-> created,
                   end |-> closed,
                   githuburl |-> record.html_url,
                   githubrepo |-> record.repo,
                   githubtype |-> extra.type,
                   githubuser |-> record.user.login,
                   githubtitle |-> record.title,
                   githubbody |-> extra.body,
                   githubmilestone |-> milestone,
                   githubnumber |-> record.number,
                   githubcreatedon |-> created,
                   githubupdatedat |-> updated,
                   githubclosedon |-> closed,
                   githubnamespace |-> extra.namespace,
                   githubstate |-> Get(record, "state", ""),
                   githubdraft |-> IF Has(record, "draft")
                                   THEN IntOfBool(record.draft) ELSE 0])

-----------------------------------------------------------------------------
(* Logseq: bugwarrior/services/logseq.py, LogseqIssue                      *)

\* logseq.py:129-133
LogseqPriorityMap == [A |-> "H", B |-> "M", C |-> "L"]

\* logseq.py:135-146
LogseqStateMap ==
    ("IN-PROGRESS" :> "pending") @@ ("DOING" :> "pending") @@
    ("TODO" :> "pending") @@ ("NOW" :> "pending") @@ ("LATER" :> "pending") @@
    ("WAIT" :> "waiting") @@ ("WAITING" :> "waiting") @@
    ("DONE" :> "completed") @@ ("CANCELED" :> "deleted") @@
    ("CANCELLED" :> "deleted")

\* logseq.py:149-156
UnescapeContent(content, cfg) ==
    LET quoted == Replace(content, <<"\"">>, <<"'">>)
        open_link == Replace(quoted, <<"[", "[">>, <<cfg.char_open_link>>)
        close_link == Replace(open_link, <<"]", "]">>, <<cfg.char_close_link>>)
        open_bracket == Replace(close_link, <<"[">>, <<cfg.char_open_bracket>>)
    IN Replace(open_bracket, <<"]">>, <<cfg.char_close_bracket>>)

\* logseq.py:159-168.  record.content is the block's content split at "\n".
GetFormatedTitle(record, cfg) ==
    LET no_a == Replace(record.content[1], <<"[", "#", "A", "]", " ">>, <<>>)
        no_b == Replace(no_a, <<"[", "#", "B", "]", " ">>, <<>>)
        first_line == Replace(no_b, <<"[", "#", "C", "]", " ">>, <<>>)
    IN UnescapeContent(first_line, cfg)

\* A character the class [^<char_open_link>^\s] of logseq.py:174 accepts.
TagChar(atom, cfg) == atom \notin {cfg.char_open_link, "^", " "}

\* The longest run of tag characters str starts with.
RECURSIVE TagRun(_, _)
TagRun(str, cfg) ==
    IF str = <<>> THEN <<>>
    ELSE IF ~TagChar(Head(str), cfg) THEN <<>>
    ELSE <<Head(str)>> \o TagRun(Tail(str), cfg)

\* re.findall(r"(#[^<char_open_link>^\s]+)", str)
RECURSIVE FindTags(_, _)
FindTags(str, cfg) ==
    IF str = <<>> THEN <<>>
    ELSE LET run == TagRun(Tail(str), cfg) IN
         IF Head(str) = "#" /\ run # <<>>
         THEN <<<<"#">> \o run>>
                 \o FindTags(SubSeq(str, Len(run) + 2, Len(str)), cfg)
         ELSE FindTags(Tail(str), cfg)

\* logseq.py:171-176
GetTagsFromContent(record, cfg) == FindTags(GetFormatedTitle(record, cfg), cfg)

\* datetime.strptime(date, date_format) inside try/except ValueError
\* (logseq.py:227-231): the datetime, or None after a warning.
Strptime(date, date_format) ==
    IF date_format = "%Y-%m-%d" /\ date = <<"2024-06-20">>
    THEN [exc |-> "none", value |-> "datetime(2024, 6, 20, 0, 0)", warned |-> FALSE]
    ELSE IF date_format = "%Y-%m-%d %H:%M" /\ date = <<"2024-06-20", " ", "10:55">>
    THEN [exc |-> "none", value |-> "datetime(2024, 6, 20, 10, 55)", warned |-> FALSE]
    ELSE [exc |-> "none", value |-> None, warned |-> TRUE]

\* word[0] in ("+", "."); word is not empty.
FirstCharIsPlusOrDot(word) == Head(word) \in {"+", ".", ".+1d", "+1w"}

\* logseq.py:200-231
GetScheduledDate(scheduled) ==
    LET no_deadline == Replace(scheduled, <<"DEADLINE:", " ", "<">>, <<>>)
        no_scheduled == Replace(no_deadline, <<"SCHEDULED:", " ", "<">>, <<>>)
        date_split == Split(Replace(no_scheduled, <<">">>, <<>>), " ")
    IN
    IF Len(date_split) = 2
    THEN Strptime(date_split[1], "%Y-%m-%d")
    ELSE IF Len(date_split) = 3 /\ date_split[3] = <<>>
    THEN [exc |-> "IndexError", value |-> None, warned |-> FALSE]
    ELSE IF Len(date_split) = 3 /\ FirstCharIsPlusOrDot(date_split[3])
    THEN Strptime(date_split[1], "%Y-%m-%d")
    ELSE IF Len(date_split) \in {3, 4}
    THEN Strptime(date_split[1] \o <<" ">> \o date_split[3], "%Y-%m-%d %H:%M")
    ELSE [exc |-> "none", value |-> None, warned |-> TRUE]

\* The loop of logseq.py:183-190 over the lines that are left.
RECURSIVE ScanLines(_, _, _)
ScanLines(lines, acc, cfg) ==
    IF lines = <<>> \/ acc.exc # "none" THEN acc
    ELSE
    LET line == Head(lines)
        date == GetScheduledDate(line)
    IN
    IF StartsWith(line, <<"SCHEDULED:", " ">>)
    THEN ScanLines(Tail(lines),
                   [acc EXCEPT !.exc = date.exc,
                               !.scheduled_date = date.value,
                               !.warned = @ \/ date.warned], cfg)
    ELSE IF StartsWith(line, <<"DEADLINE:", " ">>)
    THEN ScanLines(Tail(lines),
                   [acc EXCEPT !.exc = date.exc,
                               !.deadline_date = date.value,
                               !.warned = @ \/ date.warned], cfg)
    ELSE ScanLines(Tail(lines),
                   [acc EXCEPT !.annotations =
                                   Append(@, UnescapeContent(line, cfg))], cfg)

\* logseq.py:179-192
GetAnnotationsFromContent(record, cfg) ==
    LET acc == ScanLines(record.content,
                         [exc |-> "none", annotations |-> <<>>,
                          scheduled_date |-> None, deadline_date |-> None,
                          warned |-> FALSE], cfg)
    IN
    IF acc.exc # "none" THEN acc
    ELSE IF acc.annotations = <<>> THEN [acc EXCEPT !.exc = "IndexError"]
    ELSE [acc EXCEPT !.annotations = Tail(@)]

\* logseq.py:194-195
LogseqGetUrl(record, extra) ==
    <<"logseq://graph/", extra.graph, "?block-id=", record.uuid>>

\* logseq.py:233-254.  The outcome also tells whether a warning was logged.
LogseqToTaskwarrior(record, extra, cfg) ==
    IF ~Has(record, "content") THEN Raised("KeyError")
    ELSE
    LET content == GetAnnotationsFromContent(record, cfg) IN
    IF content.exc # "none" THEN Raised(content.exc)
    ELSE IF ~Has(extra, "graph") THEN Raised("KeyError")
    ELSE IF Has(record, "priority") /\ ~Has(LogseqPriorityMap, record.priority)
    THEN Raised("KeyError")
    ELSE IF ~Has(record, "marker") \/ ~Has(LogseqStateMap, Get(record, "marker", None))
    THEN Raised("KeyError")
    ELSE IF ~({"id", "uuid"} \subseteq DOMAIN record) THEN Raised("KeyError")
    ELSE [exc |-> "none",
          warned |-> content.warned,
          value |->
             [project |-> extra.graph,
              priority |-> IF Has(record, "priority")
                           THEN LogseqPriorityMap[record.priority] ELSE None,
              annotations |-> content.annotations,
              tags |-> GetTagsFromContent(record, cfg),
              due |-> content.deadline_date,
              scheduled |-> content.scheduled_date,
              status |-> LogseqStateMap[record.marker],
              logseqid |-> record.id,
              logsequuid |-> record.uuid,
              logseqstate |-> record.marker,
              logseqtitle |-> GetFormatedTitle(record, cfg),
              logseqscheduled |-> content.scheduled_date,
              logseqdeadline |-> content.deadline_date,
              logsequri |-> LogseqGetUrl(record, extra)]]

-----------------------------------------------------------------------------
(* GitHub: bugwarrior/services/github.py, GithubService                    *)

\* The items (issues and pull requests) GitHub knows of.
GhItems == 1..NumGhItems

\* A set of numbers as the list of its elements, ascending.
RECURSIVE Ascending(_)
Ascending(set) ==
    IF set = {} THEN <<>>
    ELSE LET least == CHOOSE x \in set : \A y \in set : x <= y IN
         <<least>> \o Ascending(set \ {least})

\* The repository <<owner, name>> an item belongs to.
GhRepoOf(i) ==
    CASE i % 3 = 1 -> <<"me", "r1">>
      [] i % 3 = 2 -> <<"me", "r2">>
      [] OTHER -> <<"org", "r1">>

\* Every second item is a pull request.
GhIsPull(i) == i % 2 = 0

\* Urls are kept split at "/" into <<site, owner, name, kind, number>>, so
\* that url.split('/')[-3] is the third element.
\*   html_url   https://github.com/<owner>/<name>/(issues|pull)/<number>
\*   url        https://api.github.com/repos/<owner>/<name>/issues/<number>
\*   url path   /<owner>/<name>/(issues|pull)/<number>
GhHtmlUrl(i) ==
    <<"https://github.com", GhRepoOf(i)[1], GhRepoOf(i)[2],
      IF GhIsPull(i) THEN "pull" ELSE "issues", i>>
GhApiUrl(i) ==
    <<"https://api.github.com/repos", GhRepoOf(i)[1], GhRepoOf(i)[2],
      "issues", i>>
GhUrlPath(i) ==
    <<"", GhRepoOf(i)[1], GhRepoOf(i)[2],
      IF GhIsPull(i) THEN "pull" ELSE "issues", i>>

\* The JSON object GitHub returns for item i; `via` tells the endpoint that
\* returned it.  A null assignee or milestone is the empty object <<>>.
GhRecord(i, via) ==
    LET base ==
          [via |-> via,
           url |-> GhApiUrl(i),
           html_url |-> GhHtmlUrl(i),
           repository_url |-> <<"https://api.github.com/repos",
                                GhRepoOf(i)[1], GhRepoOf(i)[2]>>,
           number |-> i,
           title |-> "title",
           body |-> <<"b", "\r\n", "c">>,
           user |-> [login |-> "bob"],
           state |-> "open",
           milestone |-> <<>>,
           assignee |-> CASE i % 3 = 1 -> [login |-> "me"]
                          [] i % 3 = 2 -> <<>>
                          [] OTHER -> [login |-> "other"]]
    IN IF GhIsPull(i) THEN base @@ [pull_request |-> [url |-> GhApiUrl(i)]]
       ELSE base

\* GET /user/repos and GET /users/<username>/repos
GhUserRepos ==
    <<[owner |-> [login |-> "me"], name |-> "r1"],
      [owner |-> [login |-> "me"], name |-> "r2"],
      [owner |-> [login |-> "org"], name |-> "r1"]>>

\* github.py:103-107
GhClientGetRepos(username) == GhUserRepos \o GhUserRepos

\* A dict is the list of its entries [key, value] in insertion order.
DictSet(dict, key, value) ==
    IF \E n \in 1..Len(dict) : dict[n].key = key
    THEN [n \in 1..Len(dict) |->
            IF dict[n].key = key THEN [key |-> key, value |-> value]
            ELSE dict[n]]
    ELSE Append(dict, [key |-> key, value |-> value])

\* dict.update(entries)
RECURSIVE DictUpdate(_, _)
DictUpdate(dict, entries) ==
    IF entries = <<>> THEN dict
    ELSE DictUpdate(DictSet(dict, Head(entries).key, Head(entries).value),
                    Tail(entries))

\* github.py:367-380.  A url is kept split at "/", so the last two pieces
\* are the match of '.*/([^/]*/[^/]*)$'.
GetRepositoryFromIssue(issue) ==
    IF Has(issue, "repo") THEN Returned(issue.repo)
    ELSE IF ~Has(issue, "repos_url") /\ ~Has(issue, "repository_url")
    THEN Raised("ValueError")
    ELSE LET url == IF Has(issue, "repos_url") THEN issue.repos_url
                    ELSE issue.repository_url
         IN IF Len(url) < 3 THEN Raised("ValueError")
            ELSE Returned(<<url[Len(url) - 1], url[Len(url)]>>)

\* github.py:339-350: the dict is keyed by html_url; an object whose
\* repository is not found is left out.
GhGetQuery(found) ==
    LET good == SelectSeq(found,
                    LAMBDA issue : GetRepositoryFromIssue(issue).exc = "none")
    IN DictUpdate(<<>>,
          [n \in 1..Len(good) |->
              [key |-> good[n].html_url,
               value |-> [tag |-> GetRepositoryFromIssue(good[n]).value,
                          issue |-> good[n]]]])

\* github.py:332-337: the dict is keyed by url
GhGetOwnedRepoIssues(tag, found) ==
    DictUpdate(<<>>,
        [n \in 1..Len(found) |->
            [key |-> found[n].url,
             value |-> [tag |-> tag, issue |-> found[n]]]])

\* github.py:352-357: the dict is keyed by url.  The objects of GET /issues
\* carry their repository.
GhGetDirectlyAssignedIssues(found) ==
    DictUpdate(<<>>,
        [n \in 1..Len(found) |->
            [key |-> found[n].url,
             value |-> [tag |-> GetRepositoryFromIssue(found[n]).value,
                        issue |-> found[n]]]])

\* github.py:359-365: the dict is keyed by the url path; issue_urls holds
\* the numbers of the items whose url paths are configured.
GhGetIssuesByUrl(cfg) ==
    DictUpdate(<<>>,
        [n \in 1..Len(cfg.issue_urls) |->
            [key |-> GhUrlPath(cfg.issue_urls[n]),
             value |-> [tag |-> <<GhUrlPath(cfg.issue_urls[n])[2],
                                  GhUrlPath(cfg.issue_urls[n])[3]>>,
                        issue |-> GhRecord(cfg.issue_urls[n], "issue_urls")]]])

\* github.py:429-439
GhFilterRepoName(name, cfg) ==
    IF \E n \in 1..Len(cfg.exclude_repos) : cfg.exclude_repos[n] = name
    THEN FALSE
    ELSE IF cfg.include_repos # <<>>
    THEN \E n \in 1..Len(cfg.include_repos) : cfg.include_repos[n] = name
    ELSE TRUE

\* github.py:419-421: of a dict entry, the key is split at "/"
GhFilterIssues(entry, cfg) == GhFilterRepoName(entry.key[3], cfg)

\* github.py:423-427
GhFilterRepos(repo, cfg) ==
    IF repo.owner.login # cfg.username THEN FALSE
    ELSE GhFilterRepoName(repo.name, cfg)

\* github.py:415-417
GhGetOwner(issue) ==
    IF issue.issue.assignee # <<>> THEN issue.issue.assignee.login ELSE None

\* include() putting every pull request through the assignment filter,
\* filter_pull_requests set or not.
GhInclude_PullRequestsAlwaysFiltered(issue, cfg) ==
    IF Has(issue.issue, "pull_request") /\ cfg.exclude_pull_requests
    THEN FALSE
    ELSE IF cfg.only_if_assigned # ""
    THEN GhGetOwner(issue) \in
            {cfg.only_if_assigned} \cup
            (IF cfg.also_unassigned THEN {None} ELSE {})
    ELSE TRUE

\* github.py:441-458
GhInclude(issue, cfg) ==
    IF Has(issue.issue, "pull_request") /\ cfg.exclude_pull_requests
    THEN FALSE
    ELSE IF Has(issue.issue, "pull_request") /\ ~cfg.filter_pull_requests
    THEN TRUE
    ELSE IF cfg.only_if_assigned # ""
    THEN GhGetOwner(issue) \in
            {cfg.only_if_assigned} \cup
            (IF cfg.also_unassigned THEN {None} ELSE {})
    ELSE TRUE

\* github.py:398-406
GhBody(issue, cfg) ==
    IF issue.body = <<>> THEN issue.body
    ELSE LET body == Replace(issue.body, <<"\r\n">>, <<"\n">>) IN
         SubSeq(body, 1, IF cfg.body_length < Len(body)
                         THEN cfg.body_length ELSE Len(body))

\* GET /repos/<owner>/<repo>/issues/<number>/comments
GhComments(number) ==
    IF number % 2 = 1 THEN <<[user |-> [login |-> "ann"], body |-> "lgtm"]>>
    ELSE <<>>

\* Service.build_annotations of the base class: one "@author - text"
\* annotation per comment.
BuildAnnotations(comments, url) ==
    [n \in 1..Len(comments) |-> <<"@", comments[n][1], " - ", comments[n][2]>>]

\* github.py:386-396
GhAnnotations(tag, issue, cfg) ==
    IF cfg.annotation_comments
    THEN BuildAnnotations(
            [n \in 1..Len(GhComments(issue.number)) |->
                <<GhComments(issue.number)[n].user.login,
                  GhComments(issue.number)[n].body>>],
            issue.html_url)
    ELSE BuildAnnotations(<<>>, issue.html_url)

\* github.py:495-513: the Issue object issues() yields for one kept entry
GhIssueFor(kept, cfg) ==
    [record |-> kept.issue @@ [repo |-> kept.tag],
     extra |->
        [project |-> IF cfg.project_owner_prefix
                     THEN <<kept.tag[1], ".", kept.tag[2]>>
                     ELSE <<kept.tag[2]>>,
         type |-> IF Has(kept.issue, "pull_request")
                  THEN "pull_request" ELSE "issue",
         annotations |-> GhAnnotations(kept.tag, kept.issue, cfg),
         body |-> GhBody(kept.issue, cfg),
         namespace |-> cfg.username]]

-----------------------------------------------------------------------------
(* Normalization of one issue: Issue.to_taskwarrior()                      *)

\* length of what follows "SCHEDULED: " or "DEADLINE: " on a content line
MaxRest == 3

\* main_config.default_priority
DefaultPriorities == {"L", "M", "H"}

\* With(record, key, values): the record, and the record carrying key with
\* each of the values.
With(record, key, values) ==
    {record} \cup {record @@ (key :> v) : v \in values}

\* Trac tickets as TracService.issues() hands them over (trac.py:147-187).
TracInputs ==
    {[service |-> "trac", record |-> r, extra |-> e,
      config |-> [default_priority |-> d]] :
        r \in UNION {With([url |-> t.url, number |-> t.number,
                           summary |-> "Some Summary",
                           component |-> "testcomponent"],
                          "priority",
                          {"trivial", "minor", "major", "critical", "blocker",
                           "urgent", ""}) :
                     t \in {[url |-> "https://x/ticket/204", number |-> 204],
                            [url |-> "https://x/ticket/205", number |-> 205]}},
        e \in {[project |-> "x", annotations |-> a] :
                  a \in {<<>>, <<<<"@", "ann", " - ", "a comment">>>>}},
        d \in DefaultPriorities}

\* Bitbucket issues as BitbucketService.issues() hands them over
\* (bitbucket.py:194-255).
BitbucketInputs ==
    {[service |-> "bitbucket", record |-> r, extra |-> e,
      config |-> [default_priority |-> d]] :
        r \in With([id |-> 3, title |-> "a title"],
                   "priority", {"trivial", "major", "blocker", "urgent"}),
        e \in {[project |-> "repo", annotations |-> <<>>, url |-> u] :
                  u \in {"https://bitbucket.org/me/repo/issues/3",
                         "https://bitbucket.org/me/repo/pull-requests/3"}},
        d \in DefaultPriorities}

\* GitHub issues as GithubService.issues() hands them over
\* (github.py:495-513).
GithubOptional ==
    [created_at |-> "2024-06-20T10:55:00Z", updated_at |-> "2024-07-01T08:00:00Z",
     closed_at |-> None, labels |-> <<[name |-> "bug"]>>, state |-> "open",
     draft |-> TRUE]

\* GitHub records: the fields to_taskwarrior subscripts are there, the
\* fields it reads with get() are there or not.
GithubInputs ==
    {[service |-> "github", record |-> r, extra |-> e,
      config |-> [default_priority |-> d, import_labels_as_tags |-> l]] :
        r \in {[html_url |-> u, repo |-> "me/r1",
                user |-> [login |-> "bob"], title |-> "a title",
                number |-> 1, milestone |-> m]
                   @@ [k \in present |-> GithubOptional[k]] :
                u \in {"https://github.com/me/r1/issues/1",
                       "https://github.com/me/r1/pull/1"},
                m \in {<<>>, [title |-> "v1"]},
                present \in SUBSET DOMAIN GithubOptional},
        e \in {[project |-> "r1", type |-> t, annotations |-> <<>>,
                body |-> "text", namespace |-> "me"] :
                  t \in {"issue", "pull_request"}},
        d \in DefaultPriorities,
        l \in BOOLEAN}

\* LogseqConfig, logseq.py:22-25; the characters are named by code point.
LogseqDefaults ==
    [char_open_link |-> "U+3010", char_close_link |-> "U+3011",
     char_open_bracket |-> "U+3008", char_close_bracket |-> "U+3009"]

\* Block contents, split at "\n": a title, a title with a priority marker
\* and a tag, a title followed by a note, by a scheduled date, by a deadline
\* with a time.
LogseqContents ==
    {<<<<"Do", " ", "it">>>>,
     <<<<"[", "#", "A", "]", " ", "Do", " ", "#", "home", " ", "[", "[",
         "page", "]", "]">>>>,
     <<<<"Do", " ", "it">>, <<"a", " ", "\"", "note", "\"">>>>,
     <<<<"Do", " ", "it">>,
       <<"SCHEDULED:", " ", "<", "2024-06-20", " ", "Thu", ">">>>>,
     <<<<"Do", " ", "it">>,
       <<"DEADLINE:", " ", "<", "2024-06-20", " ", "Thu", " ", "10:55", " ",
         ".+1d", ">">>>>}

\* Logseq blocks as LogseqService.issues() hands them over
\* (logseq.py:285-290).
LogseqInputs ==
    {[service |-> "logseq", record |-> r, extra |-> [graph |-> "Test"],
      config |-> LogseqDefaults @@ [default_priority |-> d]] :
        r \in UNION {With([id |-> b.id, uuid |-> b.uuid, marker |-> m,
                           content |-> c],
                          "priority", {"A", "B", "C", "D"}) :
                     b \in {[id |-> 7, uuid |-> "66699a83"],
                            [id |-> 8, uuid |-> "77799a83"]},
                     m \in {"TODO", "WAITING", "DONE"},
                     c \in LogseqContents},
        d \in DefaultPriorities}

\* The atoms a date line is made of.
DateAtoms == {"<", ">", " ", "2024-06-20", "Thu", "10:55", ".+1d", "x"}

\* All strings of at most n atoms.
RECURSIVE Strings(_, _)
Strings(atoms, n) ==
    IF n = 0 THEN {<<>>}
    ELSE LET shorter == Strings(atoms, n - 1) IN
         shorter \cup {<<a>> \o str : a \in atoms, str \in shorter}

\* What follows the prefix of a date line: the forms Logseq writes, and
\* every short string.
DateRests ==
    {<<"<", "2024-06-20", " ", "Thu", ">">>,
     <<"<", "2024-06-20", " ", "Thu", " ", "10:55", ">">>,
     <<"<", "2024-06-20", " ", "Thu", " ", ".+1d", ">">>,
     <<"<", "2024-06-20", " ", "Thu", " ", "10:55", " ", ".+1d", ">">>,
     <<"<", "2024-06-20", " ", "Thu", " ", ">">>}
        \cup Strings(DateAtoms, MaxRest)

\* Logseq blocks whose second content line is a SCHEDULED or DEADLINE line.
LogseqDateInputs ==
    {[service |-> "logseq",
      record |-> [id |-> 7, uuid |-> "66699a83", marker |-> "TODO",
                  content |-> <<<<"Do", " ", "it">>,
                                <<prefix, " ">> \o rest>>],
      extra |-> [graph |-> "Test"],
      config |-> LogseqDefaults @@ [default_priority |-> "M"]] :
        prefix \in {"SCHEDULED:", "DEADLINE:"},
        rest \in DateRests}

InitNormalize ==
    /\ PullIdle
    /\ GithubIdle
    /\ ServicesIdle
    /\ StoreIdle
    /\ FnIdle
    /\ task = Pending
    /\ \/ issue_obj \in TracInputs
       \/ issue_obj \in BitbucketInputs
       \/ issue_obj \in GithubInputs
       \/ issue_obj \in LogseqInputs

InitLogseqDate ==
    /\ PullIdle
    /\ GithubIdle
    /\ ServicesIdle
    /\ StoreIdle
    /\ FnIdle
    /\ task = Pending
    /\ issue_obj \in LogseqDateInputs

\* issue.to_taskwarrior(), of the ISSUE_CLASS of the issue's service
to_taskwarrior ==
    /\ issue_obj # NoIssue
    /\ task = Pending
    /\ task' =
          CASE issue_obj.service = "trac" ->
                  TracToTaskwarrior(issue_obj.record, issue_obj.extra,
                                    issue_obj.config)
            [] issue_obj.service = "bitbucket" ->
                  BitbucketToTaskwarrior(issue_obj.record, issue_obj.extra,
                                         issue_obj.config)
            [] issue_obj.service = "github" ->
                  GithubToTaskwarrior(issue_obj.record, issue_obj.extra,
                                      issue_obj.config)
            [] issue_obj.service = "logseq" ->
                  LogseqToTaskwarrior(issue_obj.record, issue_obj.extra,
                                      issue_obj.config)
    /\ UNCHANGED <<issue_obj, pullVars, ghVars, svcVars, dbVars, fnVars>>

NextNormalize == to_taskwarrior

SpecNormalize == InitNormalize /\ [][NextNormalize]_vars

SpecLogseqDate == InitLogseqDate /\ [][NextNormalize]_vars

\* the most lines a block's content has
MaxLines == 3

\* The lines of a block's content: a title, a note with characters to
\* escape, a scheduled date and a deadline.
LogseqLines ==
    {<<"Do", " ", "it">>,
     <<"a", " ", "\"", "note", "\"", " ", "[", "x", "]">>,
     <<"SCHEDULED:", " ", "<", "2024-06-20", " ", "Thu", ">">>,
     <<"DEADLINE:", " ", "<", "2024-06-20", " ", "Thu", " ", "10:55", ">">>}

\* Logseq blocks of one to MaxLines lines, in every order of the lines.
LogseqContentInputs ==
    {[service |-> "logseq",
      record |-> [id |-> 7, uuid |-> "66699a83", marker |-> "TODO",
                  content |-> c],
      extra |-> [graph |-> "Test"],
      config |-> LogseqDefaults @@ [default_priority |-> "M"]] :
        c \in UNION {[1..n -> LogseqLines] : n \in 1..MaxLines}}

InitLogseqContent ==
    /\ PullIdle
    /\ GithubIdle
    /\ ServicesIdle
    /\ StoreIdle
    /\ FnIdle
    /\ task = Pending
    /\ issue_obj \in LogseqContentInputs

SpecLogseqContent == InitLogseqContent /\ [][NextNormalize]_vars

\* Trac tickets as the tracker gives them: identified by 'id', by 'number',
\* or by both.
TracTicketInputs ==
    {[service |-> "trac", record |-> r,
      extra |-> [project |-> "x", annotations |-> <<>>],
      config |-> [default_priority |-> d]] :
        r \in UNION {With([summary |-> "Some Summary",
                           component |-> "testcomponent", url |-> u] @@ ident,
                          "priority",
                          {"trivial", "minor", "major", "critical", "blocker",
                           "urgent", ""}) :
                     u \in {"http://x/ticket/204", "http://some/url.com/"},
                     ident \in {[id |-> 204], [number |-> 204],
                                [id |-> 1, number |-> 204]}},
        d \in DefaultPriorities}

InitTracTicket ==
    /\ PullIdle
    /\ GithubIdle
    /\ ServicesIdle
    /\ StoreIdle
    /\ FnIdle
    /\ task = Pending
    /\ issue_obj \in TracTicketInputs

SpecTracTicket == InitTracTicket /\ [][NextNormalize]_vars

-----------------------------------------------------------------------------
(* GithubService.issues(), github.py:460-513                               *)

\* include_repos and exclude_repos as configured
GhRepoLists ==
    {[include_repos |-> i, exclude_repos |-> e] :
        i \in {<<>>, <<"r1">>}, e \in {<<>>, <<"r1">>}}

\* exclude_pull_requests, filter_pull_requests, only_if_assigned and
\* also_unassigned as configured
GhIncludeRules ==
    {[exclude_pull_requests |-> FALSE, filter_pull_requests |-> FALSE,
      only_if_assigned |-> "", also_unassigned |-> FALSE],
     [exclude_pull_requests |-> TRUE, filter_pull_requests |-> FALSE,
      only_if_assigned |-> "", also_unassigned |-> FALSE],
     [exclude_pull_requests |-> FALSE, filter_pull_requests |-> TRUE,
      only_if_assigned |-> "me", also_unassigned |-> FALSE]}

\* The configurations of a github target; issue_urls holds the numbers of
\* the items whose url paths are configured.  username is set, as
\* github.py:52-57 and 74-79 require.
GhConfigs ==
    {[username |-> "me", query |-> q, involved_issues |-> inv,
      include_user_repos |-> iur, include_user_issues |-> iui,
      issue_urls |-> Ascending(urls), project_owner_prefix |-> FALSE,
      body_length |-> 2, import_labels_as_tags |-> FALSE,
      default_priority |-> "M", annotation_comments |-> TRUE]
        @@ repos @@ rules :
        q \in {"", "is:open"}, inv \in BOOLEAN, iur \in BOOLEAN,
        iui \in BOOLEAN, urls \in SUBSET GhItems,
        repos \in GhRepoLists, rules \in GhIncludeRules}

InitGithub ==
    /\ PullIdle
    /\ NormalizerIdle
    /\ ServicesIdle
    /\ StoreIdle
    /\ FnIdle
    /\ ghConfig \in GhConfigs
    /\ ghSearch \in SUBSET GhItems
    /\ ghAssigned \in SUBSET GhItems
    /\ ghPhase = "query"
    /\ issues = <<>>
    /\ yielded = <<>>

\* The JSON objects an endpoint returns for a set of items.
GhRecords(items, via) ==
    [n \in 1..Len(Ascending(items)) |-> GhRecord(Ascending(items)[n], via)]

\* GET /repos/<username>/<repo>/issues
GhClientGetIssues(username, repo) ==
    GhRecords({i \in GhItems : GhRepoOf(i) = <<username, repo>>}, "owned")

\* github.py:462-466
IssuesQuery ==
    /\ ghPhase = "query"
    /\ issues' =
          IF ghConfig.query # ""
          THEN DictUpdate(issues, GhGetQuery(GhRecords(ghSearch, "query")))
          ELSE IF ghConfig.involved_issues
          THEN DictUpdate(issues, GhGetQuery(GhRecords(ghSearch, "involves")))
          ELSE issues
    /\ ghPhase' = "owned"
    /\ UNCHANGED <<ghConfig, ghSearch, ghAssigned, yielded, pullVars, normVars,
                   svcVars, dbVars, fnVars>>

\* The loop of github.py:478-482 over the repos that are left.
RECURSIVE UpdateFromRepos(_, _, _)
UpdateFromRepos(dict, repos, cfg) ==
    IF repos = <<>> THEN dict
    ELSE UpdateFromRepos(
            DictUpdate(dict,
                GhGetOwnedRepoIssues(<<cfg.username, Head(repos)>>,
                    GhClientGetIssues(cfg.username, Head(repos)))),
            Tail(repos), cfg)

\* github.py:468-482
IssuesOwnedRepos ==
    /\ ghPhase = "owned"
    /\ issues' =
          IF ghConfig.include_user_repos
          THEN LET all_repos == GhClientGetRepos(ghConfig.username)
                   kept == SelectSeq(all_repos,
                              LAMBDA repo : GhFilterRepos(repo, ghConfig))
                   repos == IF ghConfig.include_repos # <<>>
                            THEN ghConfig.include_repos
                            ELSE [n \in 1..Len(kept) |-> kept[n].name]
               IN UpdateFromRepos(issues, repos, ghConfig)
          ELSE issues
    /\ ghPhase' = "assigned"
    /\ UNCHANGED <<ghConfig, ghSearch, ghAssigned, yielded, pullVars, normVars,
                   svcVars, dbVars, fnVars>>

\* github.py:483-487
IssuesDirectlyAssigned ==
    /\ ghPhase = "assigned"
    /\ issues' =
          IF ghConfig.include_user_issues
          THEN DictUpdate(issues,
                  SelectSeq(GhGetDirectlyAssignedIssues(
                                GhRecords(ghAssigned, "assigned")),
                            LAMBDA entry : GhFilterIssues(entry, ghConfig)))
          ELSE issues
    /\ ghPhase' = "issue_urls"
    /\ UNCHANGED <<ghConfig, ghSearch, ghAssigned, yielded, pullVars, normVars,
                   svcVars, dbVars, fnVars>>

\* github.py:488-489
IssuesByUrl ==
    /\ ghPhase = "issue_urls"
    /\ issues' =
          IF ghConfig.issue_urls # <<>>
          THEN DictUpdate(issues,
                  SelectSeq(GhGetIssuesByUrl(ghConfig),
                            LAMBDA entry : GhFilterIssues(entry, ghConfig)))
          ELSE issues
    /\ ghPhase' = "include"
    /\ UNCHANGED <<ghConfig, ghSearch, ghAssigned, yielded, pullVars, normVars,
                   svcVars, dbVars, fnVars>>

\* github.py:491-493: issues becomes the list of the values that pass
\* include()
IssuesInclude ==
    /\ ghPhase = "include"
    /\ issues' = SelectSeq([n \in 1..Len(issues) |-> issues[n].value],
                         LAMBDA value : GhInclude(value, ghConfig))
    /\ ghPhase' = "yield"
    /\ UNCHANGED <<ghConfig, ghSearch, ghAssigned, yielded, pullVars, normVars,
                   svcVars, dbVars, fnVars>>

\* github.py:495-513: one turn of the loop; issues keeps what is left
IssuesYield ==
    /\ ghPhase = "yield"
    /\ issues # <<>>
    /\ yielded' = Append(yielded, GhIssueFor(Head(issues), ghConfig))
    /\ issues' = Tail(issues)
    /\ UNCHANGED <<ghConfig, ghSearch, ghAssigned, ghPhase, pullVars, normVars,
                   svcVars, dbVars, fnVars>>

NextGithub ==
    \/ IssuesQuery
    \/ IssuesOwnedRepos
    \/ IssuesDirectlyAssigned
    \/ IssuesByUrl
    \/ IssuesInclude
    \/ IssuesYield

SpecGithub == InitGithub /\ [][NextGithub]_vars

-----------------------------------------------------------------------------
(* TracService.issues(), trac.py:118-187                                   *)

\* number of tickets the Trac server holds
NumTickets == 2

TracTickets == 1..NumTickets

\* The attributes of a ticket: ticket[3] of trac.get_ticket, a row of the
\* csv query.
TracAttributes(id) ==
    [summary |-> "Some Summary",
     component |-> "testcomponent",
     owner |-> CASE id % 3 = 1 -> "me" [] id % 3 = 2 -> "" [] OTHER -> "other",
     priority |-> CASE id % 3 = 1 -> "critical"
                    [] id % 3 = 2 -> ""
                    [] OTHER -> "urgent"]

\* trac.server.ticket.changeLog(number)
TracChangeLog(id) ==
    CASE id % 3 = 1 ->
            <<[time |-> "t1", author |-> "ann", field |-> "comment",
               oldvalue |-> "", newvalue |-> "a comment", permanent |-> 1],
              [time |-> "t2", author |-> "bob", field |-> "status",
               oldvalue |-> "new", newvalue |-> "assigned", permanent |-> 1]>>
      [] id % 3 = 2 -> <<>>
      [] OTHER ->
            <<[time |-> "t3", author |-> "bob", field |-> "owner",
               oldvalue |-> "", newvalue |-> "other", permanent |-> 1]>>

\* The Trac targets: configuration, the open tickets of the server and the
\* status of its answer to the csv query.
TracServices ==
    {[service |-> "trac",
      config |-> [target |-> "my_trac", base_uri |-> "x.org", scheme |-> sch,
                  no_xmlrpc |-> nx, only_if_assigned |-> o,
                  also_unassigned |-> a, default_priority |-> "M"],
      tickets |-> t, status_code |-> st] :
        sch \in {"https", "http"}, nx \in BOOLEAN, o \in {"", "me"},
        a \in BOOLEAN, t \in SUBSET TracTickets, st \in {200, 500}}

\* trac.py:148
TracBaseUrl(cfg) == <<"https://", cfg.base_uri>>

\* trac.py:149-155: query_tickets, get_ticket, then url and number are set
TracXmlrpcIssues(s) ==
    LET tickets == [n \in 1..Len(Ascending(s.tickets)) |->
                      <<Ascending(s.tickets)[n], "created", "changed",
                        TracAttributes(Ascending(s.tickets)[n])>>]
    IN [n \in 1..Len(tickets) |->
          [project |-> s.config.target,
           issue |-> tickets[n][4] @@
                     [url |-> TracBaseUrl(s.config) \o <<"/ticket/", tickets[n][1]>>,
                      number |-> tickets[n][1]]]]

\* io.StringIO(initial_value): initial_value must be str
StringIO(initial_value) ==
    IF initial_value.type # "str" THEN Raised("TypeError")
    ELSE Returned(initial_value.rows)

\* trac.py:157-173: the csv query.  text.encode('utf-8') is bytes.
TracCsvIssues(s) ==
    IF s.status_code # 200 THEN Raised("RuntimeError")
    ELSE
    LET text == [type |-> "str",
                 rows |-> [n \in 1..Len(Ascending(s.tickets)) |->
                             [id |-> Ascending(s.tickets)[n]] @@
                             TracAttributes(Ascending(s.tickets)[n])]]
        buffer == StringIO([type |-> "bytes", rows |-> text.rows])
    IN
    IF buffer.exc # "none" THEN buffer
    ELSE Returned(
            [n \in 1..Len(buffer.value) |->
               [project |-> s.config.target,
                issue |-> buffer.value[n] @@
                          [url |-> TracBaseUrl(s.config)
                                      \o <<"/ticket/", buffer.value[n].id>>,
                           number |-> buffer.value[n].id]]])

\* get_owner() without the `or None`: an empty owner is an owner.
TracGetOwner_EmptyIsOwner(issue) == Get(issue.issue, "owner", None)

\* trac.py:130-132
TracGetOwner(issue) ==
    IF Get(issue.issue, "owner", None) \in {None, ""} THEN None
    ELSE issue.issue.owner

\* trac.py:134-145
TracInclude(issue, cfg) ==
    IF cfg.only_if_assigned # ""
    THEN TracGetOwner(issue) \in
            {cfg.only_if_assigned} \cup
            (IF cfg.also_unassigned THEN {None} ELSE {})
    ELSE TRUE

\* annotations() taking every entry of the changelog for a comment.
TracAnnotations_EveryEntry(issue, s) ==
    IF s.config.no_xmlrpc THEN <<>>
    ELSE LET changelog == TracChangeLog(issue.number)
             comments == SelectSeq(changelog,
                                   LAMBDA entry : TRUE)
         IN BuildAnnotations(
                [n \in 1..Len(comments) |->
                    <<comments[n].author, comments[n].newvalue>>],
                issue.url)

\* trac.py:118-128
TracAnnotations(issue, s) ==
    IF s.config.no_xmlrpc THEN <<>>
    ELSE LET changelog == TracChangeLog(issue.number)
             comments == SelectSeq(changelog,
                                   LAMBDA entry : entry.field = "comment")
         IN BuildAnnotations(
                [n \in 1..Len(comments) |->
                    <<comments[n].author, comments[n].newvalue>>],
                issue.url)

\* trac.py:147-175: the tickets are fetched over XML-RPC, or as csv
TracFetch ==
    /\ svc.service = "trac"
    /\ svcPhase = "start"
    /\ IF ~svc.config.no_xmlrpc
       THEN /\ svcIssues' = TracXmlrpcIssues(svc)
            /\ svcPhase' = "include"
            /\ UNCHANGED svcExc
       ELSE IF TracCsvIssues(svc).exc # "none"
       THEN /\ svcExc' = TracCsvIssues(svc).exc
            /\ svcPhase' = "raised"
            /\ UNCHANGED svcIssues
       ELSE /\ svcIssues' = TracCsvIssues(svc).value
            /\ svcPhase' = "include"
            /\ UNCHANGED svcExc
    /\ UNCHANGED <<svc, svcYielded, pullVars, normVars, ghVars, dbVars, fnVars>>

\* trac.py:177-178
TracPrune ==
    /\ svc.service = "trac"
    /\ svcPhase = "include"
    /\ svcIssues' = SelectSeq(svcIssues,
                              LAMBDA issue : TracInclude(issue, svc.config))
    /\ svcPhase' = "yield"
    /\ UNCHANGED <<svc, svcYielded, svcExc, pullVars, normVars, ghVars, dbVars,
                   fnVars>>

\* trac.py:180-187: one turn of the loop
TracYield ==
    /\ svc.service = "trac"
    /\ svcPhase = "yield"
    /\ svcIssues # <<>>
    /\ svcYielded' =
          Append(svcYielded,
                 [record |-> Head(svcIssues).issue,
                  extra |-> [annotations |->
                                 TracAnnotations(Head(svcIssues).issue, svc),
                             project |-> Head(svcIssues).project]])
    /\ svcIssues' = Tail(svcIssues)
    /\ UNCHANGED <<svc, svcPhase, svcExc, pullVars, normVars, ghVars, dbVars,
                   fnVars>>

-----------------------------------------------------------------------------
(* BitbucketService.issues(), bitbucket.py:126-255                         *)

\* GET /repositories/<username>/: the repositories of the workspace.  A
\* full name is kept split at "/".
BitbucketRepos ==
    <<[full_name |-> <<"ws", "repo">>, has_issues |-> TRUE],
      [full_name |-> <<"ws", "pullrequests">>, has_issues |-> TRUE],
      [full_name |-> <<"ws", "pullrequest">>, has_issues |-> TRUE],
      [full_name |-> <<"ws", "wiki">>, has_issues |-> FALSE]>>

\* The states an issue and a pull request of a repository may be in;
\* "absent": the repository has none.
BitbucketIssueStates == {"absent", "new", "resolved"}
BitbucketPullRequestStates == {"absent", "OPEN", "fulfilled"}

\* A url is kept split at "/": "https://bitbucket.org/ws/repo/issues/1" is
\* <<"https:", "", "bitbucket.org", "ws", "repo", "issues", "1">>.
BitbucketIssueRecord(tag, state) ==
    [id |-> 1,
     title |-> "a title",
     state |-> state,
     priority |-> "major",
     assignee |-> IF tag[2] = "repo" THEN [username |-> "me"] ELSE <<>>,
     links |-> [html |-> [href |-> <<"https:", "", "bitbucket.org", tag[1],
                                     tag[2], "issues", "1">>]]]

BitbucketPullRequestRecord(tag, state) ==
    [id |-> 1,
     title |-> "a change",
     state |-> state,
     links |-> [html |-> [href |-> <<"https:", "", "bitbucket.org", tag[1],
                                     tag[2], "pull-requests", "1">>]]]

\* The truth value of an option typed Union[bool, Literal['Undefined']]
\* (bitbucket.py:29), as `if` takes it: a non-empty string is true.
Truthy(option) == option # "False"

\* The Bitbucket targets: configuration, the issue and the pull request
\* each repository holds, and the key under which the API reports the state
\* of an issue ('status', or 'state' since the API change).
\* include_merge_requests is True, False, or left at its default
\* 'Undefined'.
BitbucketServices ==
    {[service |-> "bitbucket",
      config |-> [username |-> "ws", include_repos |-> rp.include_repos,
                  exclude_repos |-> rp.exclude_repos,
                  include_merge_requests |-> imr,
                  project_owner_prefix |-> FALSE,
                  only_if_assigned |-> o, also_unassigned |-> FALSE,
                  default_priority |-> "M"],
      issues |-> i, pull_requests |-> pr, status_key |-> k] :
        rp \in {[include_repos |-> <<>>, exclude_repos |-> <<>>],
                [include_repos |-> <<>>, exclude_repos |-> <<"repo">>],
                [include_repos |-> <<"repo">>, exclude_repos |-> <<>>]},
        imr \in {"True", "False", "Undefined"},
        o \in {"", "me"},
        k \in {"status", "state"},
        i \in [{"repo", "pullrequests", "pullrequest"} -> BitbucketIssueStates],
        pr \in [{"repo", "pullrequests", "pullrequest"} ->
                    BitbucketPullRequestStates]}

\* bitbucket.py:126-139
BitbucketFilterRepos(repo_tag, cfg) ==
    LET repo == repo_tag[Len(repo_tag)] IN
    IF cfg.exclude_repos # <<>>
          /\ \E n \in 1..Len(cfg.exclude_repos) : cfg.exclude_repos[n] = repo
    THEN FALSE
    ELSE IF cfg.include_repos # <<>>
    THEN \E n \in 1..Len(cfg.include_repos) : cfg.include_repos[n] = repo
    ELSE TRUE

\* bitbucket.py:195-200
BitbucketRepoTags(s) ==
    LET with_issues == SelectSeq(BitbucketRepos,
                                 LAMBDA repo : Get(repo, "has_issues", FALSE))
        full_names == [n \in 1..Len(with_issues) |-> with_issues[n].full_name]
    IN SelectSeq(full_names,
                 LAMBDA tag : BitbucketFilterRepos(tag, s.config))

\* bitbucket.py:155-157
fetch_issues(tag, s) ==
    LET record == BitbucketIssueRecord(tag, s.issues[tag[2]])
        keys == (DOMAIN record \ {"state"}) \cup {s.status_key}
    IN IF s.issues[tag[2]] = "absent" THEN <<>>
       ELSE <<[tag |-> tag,
               issue |-> [key \in keys |->
                             IF key = s.status_key THEN record.state
                             ELSE record[key]]]>>

\* bitbucket.py:159-161
fetch_pull_requests(tag, s) ==
    IF s.pull_requests[tag[2]] = "absent" THEN <<>>
    ELSE <<[tag |-> tag,
            issue |-> BitbucketPullRequestRecord(tag,
                                                 s.pull_requests[tag[2]])]>>

\* sum(lists, []), bitbucket.py:202 and 229-230
RECURSIVE Sum(_)
Sum(lists) ==
    IF lists = <<>> THEN <<>> ELSE Head(lists) \o Sum(Tail(lists))

\* bitbucket.py:175-179
BitbucketGetOwner(issue) ==
    IF Get(issue.issue, "assignee", <<>>) # <<>>
    THEN Get(issue.issue.assignee, "username", None)
    ELSE None

\* bitbucket.py:181-192
BitbucketInclude(issue, cfg) ==
    IF cfg.only_if_assigned # ""
    THEN BitbucketGetOwner(issue) \in
            {cfg.only_if_assigned} \cup
            (IF cfg.also_unassigned THEN {None} ELSE {})
    ELSE TRUE

\* bitbucket.py:205-210: the closed issues are dropped, by 'status', or by
\* 'state' when an issue has no 'status'.
BitbucketOpenIssues(found) ==
    LET closed == {"resolved", "duplicate", "wontfix", "invalid", "closed"} IN
    IF \A n \in 1..Len(found) : Has(found[n].issue, "status")
    THEN SelectSeq(found, LAMBDA tup : tup.issue.status \notin closed)
    ELSE SelectSeq(found, LAMBDA tup : tup.issue.state \notin closed)

\* not_resolved() that keeps every pull request.
BitbucketNotResolved_KeepsAll(tup) == TRUE

\* bitbucket.py:234-236
BitbucketNotResolved(tup) == tup.issue.state \notin {"rejected", "fulfilled"}

\* GET /repositories/<tag>/pullrequests/<id>/comments
BitbucketComments(tag, id) ==
    IF tag[2] = "repo"
    THEN <<[user |-> [username |-> "ann"], content |-> [raw |-> "lgtm"]]>>
    ELSE <<>>

\* bitbucket.py:163-173
BitbucketGetAnnotations(tag, issue, url) ==
    BuildAnnotations(
        [n \in 1..Len(BitbucketComments(tag, issue.id)) |->
            <<BitbucketComments(tag, issue.id)[n].user.username,
              BitbucketComments(tag, issue.id)[n].content.raw>>],
        url)

\* BASE_URL, bitbucket.py:96, split at "/"
BitbucketBaseUrl == <<"https:", "", "bitbucket.org">>

\* str.replace('pullrequests', 'pullrequest') on one piece of a url
ReplacePullrequests(piece) ==
    IF piece = "pullrequests" THEN "pullrequest" ELSE piece

\* bitbucket.py:245-247: the url of a pull request
BitbucketPullRequestUrl(href) ==
    BitbucketBaseUrl \o
        [n \in 1..(Len(href) - 3) |-> ReplacePullrequests(href[n + 3])]

\* bitbucket.py:214-217, 240-243
BitbucketProjectName(tag, cfg) ==
    IF cfg.project_owner_prefix THEN <<tag[1], ".", tag[2]>> ELSE <<tag[2]>>

\* bitbucket.py:194-211
BitbucketFetchIssues ==
    /\ svc.service = "bitbucket"
    /\ svcPhase = "start"
    /\ svcIssues' =
          SelectSeq(
              BitbucketOpenIssues(
                  Sum([n \in 1..Len(BitbucketRepoTags(svc)) |->
                          fetch_issues(BitbucketRepoTags(svc)[n], svc)])),
              LAMBDA issue : BitbucketInclude(issue, svc.config))
    /\ svcPhase' = "issues"
    /\ UNCHANGED <<svc, svcYielded, svcExc, pullVars, normVars, ghVars, dbVars,
                   fnVars>>

\* bitbucket.py:213-225: one turn of the loop over the issues
BitbucketYieldIssue ==
    /\ svc.service = "bitbucket"
    /\ svcPhase = "issues"
    /\ svcIssues # <<>>
    /\ LET tag == Head(svcIssues).tag
           issue == Head(svcIssues).issue
           url == issue.links.html.href
       IN svcYielded' =
             Append(svcYielded,
                    [record |-> issue,
                     extra |-> [project |-> BitbucketProjectName(tag, svc.config),
                                url |-> url,
                                annotations |->
                                    BitbucketGetAnnotations(tag, issue, url)]])
    /\ svcIssues' = Tail(svcIssues)
    /\ UNCHANGED <<svc, svcPhase, svcExc, pullVars, normVars, ghVars, dbVars,
                   fnVars>>

\* bitbucket.py:227-237: after the last issue, the pull requests are fetched
\* if include_merge_requests is set
BitbucketFetchPullRequests ==
    /\ svc.service = "bitbucket"
    /\ svcPhase = "issues"
    /\ svcIssues = <<>>
    /\ IF Truthy(svc.config.include_merge_requests)
       THEN /\ svcIssues' =
                  SelectSeq(
                      SelectSeq(
                          Sum([n \in 1..Len(BitbucketRepoTags(svc)) |->
                                  fetch_pull_requests(
                                      BitbucketRepoTags(svc)[n], svc)]),
                          BitbucketNotResolved),
                      LAMBDA issue : BitbucketInclude(issue, svc.config))
            /\ svcPhase' = "pull_requests"
       ELSE /\ svcPhase' = "done"
            /\ UNCHANGED svcIssues
    /\ UNCHANGED <<svc, svcYielded, svcExc, pullVars, normVars, ghVars, dbVars,
                   fnVars>>

\* bitbucket.py:239-255: one turn of the loop over the pull requests
BitbucketYieldPullRequest ==
    /\ svc.service = "bitbucket"
    /\ svcPhase = "pull_requests"
    /\ svcIssues # <<>>
    /\ LET tag == Head(svcIssues).tag
           issue == Head(svcIssues).issue
           url == BitbucketPullRequestUrl(issue.links.html.href)
       IN svcYielded' =
             Append(svcYielded,
                    [record |-> issue,
                     extra |-> [project |-> BitbucketProjectName(tag, svc.config),
                                url |-> url,
                                annotations |->
                                    BitbucketGetAnnotations(tag, issue, url)]])
    /\ svcIssues' = Tail(svcIssues)
    /\ UNCHANGED <<svc, svcPhase, svcExc, pullVars, normVars, ghVars, dbVars,
                   fnVars>>

-----------------------------------------------------------------------------
(* LogseqService.issues(), logseq.py:41-78 and 285-290                     *)

\* number of task blocks the Logseq graph holds
NumBlocks == 2

LogseqBlocks == 1..NumBlocks

\* The block a datascript query pulls.
LogseqBlock(b) ==
    [id |-> b,
     uuid |-> CASE b % 3 = 1 -> "66699a83" [] b % 3 = 2 -> "77799a83"
                [] OTHER -> "88899a83",
     marker |-> CASE b % 3 = 1 -> "TODO" [] b % 3 = 2 -> "WAITING"
                  [] OTHER -> "DONE",
     content |-> <<<<"Do", " ", "it">>>>]

\* The Logseq targets: configuration (task_state as the default, as one
\* marker, and listing a marker STATE_MAP does not have), the current graph
\* (<<>>: none is open), its task blocks and their markers, and whether the
\* HTTP server answers.
LogseqServices ==
    {[service |-> "logseq",
      config |-> LogseqDefaults @@
                 [task_state |-> ts, default_priority |-> "M"],
      graph |-> g, blocks |-> b, markers |-> m, connected |-> c] :
        ts \in {<<"DOING", "TODO", "NOW", "LATER", "IN-PROGRESS", "WAIT",
                  "WAITING">>,
                <<"TODO">>,
                <<"TODO", "DONE", "STARTED">>},
        g \in {<<>>, [name |-> "Test"]},
        b \in SUBSET LogseqBlocks,
        m \in {[x \in LogseqBlocks |-> LogseqBlock(x).marker],
               [x \in LogseqBlocks |-> "DONE"],
               [x \in LogseqBlocks |-> "STARTED"]},
        c \in BOOLEAN}

\* logseq.py:65-67
LogseqGetGraphName(s) == IF s.graph # <<>> THEN s.graph.name ELSE None

\* logseq.py:69-78: the blocks whose marker is in task_state, one result
\* tuple per block
LogseqGetIssues(s) ==
    LET found == SelectSeq(
                    [n \in 1..Len(Ascending(s.blocks)) |->
                        [LogseqBlock(Ascending(s.blocks)[n])
                            EXCEPT !.marker =
                                       s.markers[Ascending(s.blocks)[n]]]],
                    LAMBDA block :
                        \E n \in 1..Len(s.config.task_state) :
                            s.config.task_state[n] = block.marker)
    IN [n \in 1..Len(found) |-> <<found[n]>>]

\* logseq.py:285-287, with 41-63: a ConnectionError ends the process
LogseqFetch ==
    /\ svc.service = "logseq"
    /\ svcPhase = "start"
    /\ IF svc.connected
       THEN /\ svcIssues' = LogseqGetIssues(svc)
            /\ svcPhase' = "yield"
            /\ UNCHANGED svcExc
       ELSE /\ svcExc' = "SystemExit"
            /\ svcPhase' = "raised"
            /\ UNCHANGED svcIssues
    /\ UNCHANGED <<svc, svcYielded, pullVars, normVars, ghVars, dbVars, fnVars>>

\* logseq.py:287-290: one turn of the loop
LogseqYield ==
    /\ svc.service = "logseq"
    /\ svcPhase = "yield"
    /\ svcIssues # <<>>
    /\ svcYielded' =
          Append(svcYielded,
                 [record |-> Head(svcIssues)[1],
                  extra |-> [graph |-> LogseqGetGraphName(svc)]])
    /\ svcIssues' = Tail(svcIssues)
    /\ UNCHANGED <<svc, svcPhase, svcExc, pullVars, normVars, ghVars, dbVars,
                   fnVars>>

-----------------------------------------------------------------------------
(* The three services together                                             *)

InitServices ==
    /\ PullIdle
    /\ NormalizerIdle
    /\ GithubIdle
    /\ StoreIdle
    /\ FnIdle
    /\ \/ svc \in TracServices
       \/ svc \in BitbucketServices
       \/ svc \in LogseqServices
    /\ svcPhase = "start"
    /\ svcIssues = <<>>
    /\ svcYielded = <<>>
    /\ svcExc = "none"

NextServices ==
    \/ TracFetch
    \/ TracPrune
    \/ TracYield
    \/ BitbucketFetchIssues
    \/ BitbucketYieldIssue
    \/ BitbucketFetchPullRequests
    \/ BitbucketYieldPullRequest
    \/ LogseqFetch
    \/ LogseqYield

SpecServices == InitServices /\ [][NextServices]_vars

-----------------------------------------------------------------------------
(* synchronize(issues, config, main_section, dry_run), bugwarrior/db.py    *)
(* as called at command.py:111: the reconciliation of the aggregated       *)
(* issues with the local task store                                        *)

\* the most tasks the local store holds
MaxTasks == 2

\* The unique keys of the upstream items and the values of their fields.
Keys == <<"K1", "K2">>
FieldValues == {"a", "b"}

\* The aggregated issue sets: at most one issue per unique key.
IssueSets ==
    {{[key |-> k, fields |-> f[k]] : k \in ks} :
        ks \in SUBSET {Keys[n] : n \in 1..Len(Keys)},
        f \in [{Keys[n] : n \in 1..Len(Keys)} -> FieldValues]}

\* A task of the local store: created by this tool (managed, it carries the
\* UDAs of its unique key) or the user's own.
ManagedTasks ==
    [managed : {TRUE}, key : {Keys[n] : n \in 1..Len(Keys)},
     status : {"pending", "completed"}, fields : FieldValues]

UnmanagedTasks ==
    [managed : {FALSE}, key : {None}, status : {"pending", "completed"},
     fields : {"mine"}]

\* The open task of the store with the unique key: its position, 0 if none.
FindOpenTask(st, key) ==
    IF \E n \in 1..Len(st) :
          st[n].managed /\ st[n].status = "pending" /\ st[n].key = key
    THEN CHOOSE n \in 1..Len(st) :
            /\ st[n].managed /\ st[n].status = "pending" /\ st[n].key = key
            /\ \A m \in 1..(n - 1) :
                  ~(st[m].managed /\ st[m].status = "pending"
                       /\ st[m].key = key)
    ELSE 0

\* The stores the tool leaves: no two open managed tasks with one key.
Stores ==
    {st \in UNION {[1..n -> ManagedTasks \cup UnmanagedTasks] :
                      n \in 0..MaxTasks} :
        \A m, n \in 1..Len(st) :
            (m # n /\ st[m].managed /\ st[n].managed
                /\ st[m].status = "pending" /\ st[n].status = "pending")
            => st[m].key # st[n].key}

\* Decisions that retire every pending task without an incoming issue, the
\* user's own tasks too.
Decisions_RetiresAnyTask(st, aggregated) ==
    [create |-> {i.key : i \in {j \in aggregated : FindOpenTask(st, j.key) = 0}},
     update |-> {i.key : i \in {j \in aggregated :
                                   /\ FindOpenTask(st, j.key) # 0
                                   /\ st[FindOpenTask(st, j.key)].fields
                                         # j.fields}},
     retire |-> {n \in 1..Len(st) :
                    /\ st[n].status = "pending"
                    /\ \A i \in aggregated : i.key # st[n].key}]

\* The decisions of a run: the keys to create and to update, the positions
\* of the tasks to retire.
Decisions(st, aggregated) ==
    [create |-> {i.key : i \in {j \in aggregated : FindOpenTask(st, j.key) = 0}},
     update |-> {i.key : i \in {j \in aggregated :
                                   /\ FindOpenTask(st, j.key) # 0
                                   /\ st[FindOpenTask(st, j.key)].fields
                                         # j.fields}},
     retire |-> {n \in 1..Len(st) :
                    /\ st[n].managed
                    /\ st[n].status = "pending"
                    /\ \A i \in aggregated : i.key # st[n].key}]

\* An update that writes nothing.
UpdateTask_NothingWritten(local, issue) == local

\* The fields of a matching task are brought to those of the issue.
UpdateTask(local, issue) == [local EXCEPT !.fields = issue.fields]

\* A retirement that leaves the task open.
RetireTask_LeftOpen(local) == local

\* A task is marked done.
RetireTask(local) == [local EXCEPT !.status = "completed"]

\* A task is created for an issue.
CreateTask(issue) ==
    [managed |-> TRUE, key |-> issue.key, status |-> "pending",
     fields |-> issue.fields]

\* The store after the decisions are applied: updates and retirements in
\* place, then the new tasks, in the order of the keys.
ApplyDecisions(st, aggregated, decided) ==
    LET kept == [n \in 1..Len(st) |->
                    IF n \in decided.retire THEN RetireTask(st[n])
                    ELSE IF st[n].managed /\ st[n].status = "pending"
                            /\ st[n].key \in decided.update
                    THEN UpdateTask(st[n],
                                    CHOOSE i \in aggregated : i.key = st[n].key)
                    ELSE st[n]]
        created == SelectSeq(Keys, LAMBDA k : k \in decided.create)
    IN kept \o [n \in 1..Len(created) |->
                   CreateTask(CHOOSE i \in aggregated : i.key = created[n])]

\* The number of writes a run makes.
Mutations(decided, dry_run) ==
    IF dry_run THEN 0
    ELSE Cardinality(decided.create) + Cardinality(decided.update)
            + Cardinality(decided.retire)

\* The last two runs.
Remember(runs, run) ==
    IF runs = <<>> THEN <<run>> ELSE <<runs[Len(runs)], run>>

InitSync ==
    /\ PullIdle
    /\ NormalizerIdle
    /\ GithubIdle
    /\ ServicesIdle
    /\ FnIdle
    /\ store \in Stores
    /\ incoming = {}
    /\ history = <<>>

\* A run that writes also when dry_run is set.
db_synchronize_DryRunWrites(aggregated, dry_run) ==
    LET decided == Decisions(store, aggregated) IN
    /\ Len(store) + Cardinality(decided.create) <= MaxTasks
    /\ incoming' = aggregated
    /\ store' = ApplyDecisions(store, aggregated, decided)
    /\ history' = Remember(history,
                           [issues |-> aggregated, dry_run |-> dry_run,
                            decisions |-> decided,
                            mutations |-> Mutations(decided, dry_run)])
    /\ UNCHANGED <<pullVars, normVars, ghVars, svcVars, fnVars>>

\* synchronize(issues, ..., dry_run): one run
db_synchronize(aggregated, dry_run) ==
    LET decided == Decisions(store, aggregated) IN
    /\ Len(store) + Cardinality(decided.create) <= MaxTasks
    /\ incoming' = aggregated
    /\ store' = IF dry_run THEN store
                ELSE ApplyDecisions(store, aggregated, decided)
    /\ history' = Remember(history,
                           [issues |-> aggregated, dry_run |-> dry_run,
                            decisions |-> decided,
                            mutations |-> Mutations(decided, dry_run)])
    /\ UNCHANGED <<pullVars, normVars, ghVars, svcVars, fnVars>>

NextSync ==
    \E aggregated \in IssueSets, dry_run \in BOOLEAN :
        db_synchronize(aggregated, dry_run)

SpecSync == InitSync /\ [][NextSync]_vars

-----------------------------------------------------------------------------
(* GithubService.include(issue), github.py:441-458, on its own             *)

\* The items and configurations include() is applied to: an issue or a pull
\* request, assigned to the user, to someone else or to nobody.
IncludeInputs ==
    {[fn |-> "include", service |-> "github",
      issue |-> [tag |-> "me/r1",
                 issue |-> IF pr
                           THEN [number |-> 1, assignee |-> a,
                                 pull_request |-> [url |-> "pulls/1"]]
                           ELSE [number |-> 1, assignee |-> a]],
      cfg |-> [exclude_pull_requests |-> e, filter_pull_requests |-> f,
               only_if_assigned |-> o, also_unassigned |-> u]] :
        pr \in BOOLEAN,
        a \in {<<>>, [login |-> "me"], [login |-> "other"]},
        e \in BOOLEAN, f \in BOOLEAN, o \in {"", "me"}, u \in BOOLEAN}

InitInclude ==
    /\ PullIdle
    /\ NormalizerIdle
    /\ GithubIdle
    /\ ServicesIdle
    /\ StoreIdle
    /\ arg \in IncludeInputs
    /\ result = Pending

\* self.include(issue)
include ==
    /\ arg.fn = "include"
    /\ result = Pending
    /\ result' = Returned(CASE arg.service = "trac" ->
                                  TracInclude(arg.issue, arg.cfg)
                             [] arg.service = "bitbucket" ->
                                  BitbucketInclude(arg.issue, arg.cfg)
                             [] arg.service = "github" ->
                                  GhInclude(arg.issue, arg.cfg))
    /\ UNCHANGED <<arg, pullVars, normVars, ghVars, svcVars, dbVars>>

NextInclude == include

SpecInclude == InitInclude /\ [][NextInclude]_vars

\* The items the include() of the three services is applied to: with an
\* owner, with another, with none (absent, null, or empty), under every
\* setting of only_if_assigned and also_unassigned.
OwnershipInputs ==
    IncludeInputs
    \cup {[fn |-> "include", service |-> "trac",
           issue |-> [project |-> "my_trac", issue |-> t],
           cfg |-> [only_if_assigned |-> o, also_unassigned |-> u]] :
             t \in With([summary |-> "Some Summary", number |-> 1], "owner",
                        {"", "me", "other"}),
             o \in {"", "me"}, u \in BOOLEAN}
    \cup {[fn |-> "include", service |-> "bitbucket",
           issue |-> [tag |-> <<"ws", "repo">>, issue |-> i],
           cfg |-> [only_if_assigned |-> o, also_unassigned |-> u]] :
             i \in With([id |-> 1, title |-> "a title"], "assignee",
                        {<<>>, [username |-> "me"], [username |-> "other"],
                         [display_name |-> "Me"]}),
             o \in {"", "me"}, u \in BOOLEAN}

InitOwnership ==
    /\ PullIdle
    /\ NormalizerIdle
    /\ GithubIdle
    /\ ServicesIdle
    /\ StoreIdle
    /\ arg \in OwnershipInputs
    /\ result = Pending

SpecOwnership == InitOwnership /\ [][NextInclude]_vars

-----------------------------------------------------------------------------
(* Pagination: BitbucketService.get_collection, bitbucket.py:145-153, and  *)
(* GithubClient._getter, github.py:149-165 and 180-193                     *)

\* the most pages a collection has
MaxPages == 3

\* The urls of the pages of a collection, the first page first.
PageUrls == <<"url1", "url2", "url3", "url4", "url5">>

\* The page a url (a string, as a sequence of atoms) asks for.
PageOf(url) == CHOOSE n \in 1..Len(PageUrls) : <<PageUrls[n]>> = url

\* The collections of a server: one to MaxPages pages, of no, one or two
\* items each.
Collections ==
    UNION {[1..n -> {<<>>, <<"a">>, <<"a", "b">>}] : n \in 1..MaxPages}

\* The items of page n, each marked with its page.
PageItems(pages, n) ==
    [k \in 1..Len(pages[n]) |-> [page |-> n, item |-> pages[n][k]]]

\* The json of page n of a Bitbucket collection: 'next' is the url of the
\* next page; the last page has no 'next', or a null one.
BitbucketResponse(pages, n) ==
    IF n < Len(pages)
    THEN [values |-> PageItems(pages, n), next |-> <<PageUrls[n + 1]>>]
    ELSE IF Len(pages) % 2 = 0
    THEN [values |-> PageItems(pages, n), next |-> None]
    ELSE [values |-> PageItems(pages, n)]

\* One part of a Link header: <url>; rel="name"
LinkPart(url, rel) ==
    <<"<", url, ">", "; ", "r", "e", "l", "=", "\"", rel, "\"">>

\* The parts joined with ', '.
RECURSIVE JoinParts(_)
JoinParts(parts) ==
    IF parts = <<>> THEN <<>>
    ELSE IF Len(parts) = 1 THEN parts[1]
    ELSE parts[1] \o <<", ">> \o JoinParts(Tail(parts))

\* The answer of GitHub to the request of page n: the json (the items, or an
\* object holding them under 'items' for a search) and the headers, with a
\* Link header unless the collection has one page.
GithubResponse(pages, n, subkey) ==
    [json |-> IF subkey = None THEN PageItems(pages, n)
              ELSE [total_count |-> 0, items |-> PageItems(pages, n)],
     headers |->
        IF Len(pages) = 1 THEN <<>>
        ELSE [link |->
                JoinParts(
                    (IF n < Len(pages)
                     THEN <<LinkPart(PageUrls[n + 1], "next"),
                            LinkPart(PageUrls[Len(pages)], "last")>>
                     ELSE <<>>)
                    \o (IF n > 1
                        THEN <<LinkPart(PageUrls[n - 1], "prev"),
                               LinkPart(PageUrls[1], "first")>>
                        ELSE <<>>))]]

\* _link_field_to_dict that does not cut rel=" and " off the key.
LinkFieldToDict_KeyNotCut(field) ==
    IF field = None \/ field = <<>> THEN <<>>
    ELSE LET parts == Split(field, ", ") IN
         DictUpdate(<<>>,
             [n \in 1..Len(parts) |->
                 [key |-> Split(parts[n], "; ")[2],
                  value |-> SubSeq(Split(parts[n], "; ")[1], 2,
                                   Len(Split(parts[n], "; ")[1]) - 1)]])

\* github.py:180-193
LinkFieldToDict(field) ==
    IF field = None \/ field = <<>> THEN <<>>
    ELSE LET parts == Split(field, ", ") IN
         DictUpdate(<<>>,
             [n \in 1..Len(parts) |->
                 [key |-> SubSeq(Split(parts[n], "; ")[2], 6,
                                 Len(Split(parts[n], "; ")[2]) - 1),
                  value |-> SubSeq(Split(parts[n], "; ")[1], 2,
                                   Len(Split(parts[n], "; ")[1]) - 1)]])

\* `key in link` and link[key] of the dict
LinkHas(link, key) == \E n \in 1..Len(link) : link[n].key = key
LinkGet(link, key) == link[CHOOSE n \in 1..Len(link) : link[n].key = key].value

\* The calls: get_collection(url) of Bitbucket, _getter(url) and
\* _getter(url, subkey='items') of GitHub, with their local variables on
\* entry; requested lists the urls asked for.
InitPaging ==
    /\ PullIdle
    /\ NormalizerIdle
    /\ GithubIdle
    /\ ServicesIdle
    /\ StoreIdle
    /\ \E pages \in Collections :
          \/ arg = [fn |-> "get_collection", pages |-> pages,
                    url |-> <<PageUrls[1]>>, results |-> <<>>,
                    requested |-> <<>>]
          \/ \E subkey \in {None, "items"} :
                arg = [fn |-> "_getter", pages |-> pages, subkey |-> subkey,
                       link |-> <<[key |-> <<"next">>,
                                   value |-> <<PageUrls[1]>>]>>,
                       results |-> <<>>, requested |-> <<>>]
    /\ result = Pending

\* bitbucket.py:150-153: one turn of the loop
get_collection ==
    /\ arg.fn = "get_collection"
    /\ result = Pending
    /\ arg.url # None
    /\ LET response == BitbucketResponse(arg.pages, PageOf(arg.url)) IN
       arg' = [arg EXCEPT !.results = @ \o response.values,
                          !.url = Get(response, "next", None),
                          !.requested = Append(@, arg.url)]
    /\ UNCHANGED <<result, pullVars, normVars, ghVars, svcVars, dbVars>>

\* bitbucket.py:150: url is None, the generator is exhausted
get_collection_ends ==
    /\ arg.fn = "get_collection"
    /\ result = Pending
    /\ arg.url = None
    /\ result' = Returned(arg.results)
    /\ UNCHANGED <<arg, pullVars, normVars, ghVars, svcVars, dbVars>>

\* github.py:155-163: the local variables after one turn of the loop
getter_turn(frame) ==
    LET url == LinkGet(frame.link, <<"next">>)
        response == GithubResponse(frame.pages, PageOf(url), frame.subkey)
        json_res == IF frame.subkey # None THEN response.json[frame.subkey]
                    ELSE response.json
    IN [frame EXCEPT !.results = @ \o json_res,
                     !.link = LinkFieldToDict(
                                  Get(response.headers, "link", None)),
                     !.requested = Append(@, url)]

\* github.py:154-163: one turn of the loop
getter ==
    /\ arg.fn = "_getter"
    /\ result = Pending
    /\ LinkHas(arg.link, <<"next">>)
    /\ arg' = getter_turn(arg)
    /\ UNCHANGED <<result, pullVars, normVars, ghVars, svcVars, dbVars>>

\* github.py:154 and 165: 'next' is not in link, results is returned
getter_returns ==
    /\ arg.fn = "_getter"
    /\ result = Pending
    /\ ~LinkHas(arg.link, <<"next">>)
    /\ result' = Returned(arg.results)
    /\ UNCHANGED <<arg, pullVars, normVars, ghVars, svcVars, dbVars>>

NextPaging ==
    \/ get_collection
    \/ get_collection_ends
    \/ getter
    \/ getter_returns

SpecPaging == InitPaging /\ [][NextPaging]_vars

-----------------------------------------------------------------------------
(* GithubConfig: the root validators, github.py:52-79                      *)

\* the most entries issue_urls has
MaxUrls == 2

\* The longest prefix of str that holds none of the atoms stops.
RECURSIVE Until(_, _)
Until(str, stops) ==
    IF str = <<>> THEN <<>>
    ELSE IF Head(str) \in stops THEN <<>>
    ELSE <<Head(str)>> \o Until(Tail(str), stops)

\* urllib.parse.urlparse(url): the netloc follows '//' and ends before the
\* first '/', '?' or '#'; the path ends before the first '?' or '#'.
urlparse(url) ==
    LET rest == IF url # <<>> /\ Head(url) \in {"https:", "http:"}
                THEN Tail(url) ELSE url
        after == IF StartsWith(rest, <<"//">>) THEN Tail(rest) ELSE rest
        netloc == IF StartsWith(rest, <<"//">>)
                  THEN Until(after, {"/", "?", "#"}) ELSE <<>>
    IN [netloc |-> netloc,
        path |-> Until(SubSeq(after, Len(netloc) + 1, Len(after)),
                       {"?", "#"})]

\* The atoms the class [0-9] is made of.
DigitAtoms == {"1", "42"}

\* re.match(r'^/.*/.*/(issues|pull)/[0-9]*$', path): after the leading '/'
\* come two stretches of any characters, each followed by '/', then issues
\* or pull, '/', and digits, of which there may be none.
IssuePathMatches(path) ==
    LET segments == Split(path, "/")
        last == Len(segments)
    IN /\ last >= 5
       /\ segments[1] = <<>>
       /\ segments[last - 1] \in {<<"issues">>, <<"pull">>}
       /\ \A n \in 1..Len(segments[last]) : segments[last][n] \in DigitAtoms

\* github.py:52-57
require_username_or_query(values) ==
    IF values.username = "" /\ values.query = ""
    THEN Raised("ValueError")
    ELSE Returned(values)

\* The loop of github.py:62-70 over the urls that are left.
RECURSIVE IssueUrlPaths(_, _, _)
IssueUrlPaths(urls, host, issue_url_paths) ==
    IF urls = <<>> THEN Returned(issue_url_paths)
    ELSE LET parsed_url == urlparse(Head(urls)) IN
         IF parsed_url.netloc # host THEN Raised("ValueError")
         ELSE IF ~IssuePathMatches(parsed_url.path) THEN Raised("ValueError")
         ELSE IssueUrlPaths(Tail(urls), host,
                            Append(issue_url_paths, parsed_url.path))

\* github.py:59-72
issue_urls_consistent_with_host(values) ==
    LET paths == IssueUrlPaths(values.issue_urls, values.host, <<>>) IN
    IF paths.exc # "none" THEN paths
    ELSE Returned([values EXCEPT !.issue_urls = paths.value])

\* github.py:74-79
require_username_if_include_user_repos(values) ==
    IF values.include_user_repos /\ values.username = ""
    THEN Raised("ValueError")
    ELSE Returned(values)

\* GithubConfig(**section): the root validators run in the order of their
\* definition, each on the values the last successful one returned; a
\* ValueError is recorded under the validator's name and the next one still
\* runs.  Any error rejects the section.
GithubConfigValidate(values) ==
    LET first == require_username_or_query(values)
        values1 == IF first.exc = "none" THEN first.value ELSE values
        second == issue_urls_consistent_with_host(values1)
        values2 == IF second.exc = "none" THEN second.value ELSE values1
        third == require_username_if_include_user_repos(values2)
        values3 == IF third.exc = "none" THEN third.value ELSE values2
        errors ==
            (IF first.exc # "none"
             THEN <<"require_username_or_query">> ELSE <<>>)
            \o (IF second.exc # "none"
                THEN <<"issue_urls_consistent_with_host">> ELSE <<>>)
            \o (IF third.exc # "none"
                THEN <<"require_username_if_include_user_repos">> ELSE <<>>)
    IN IF errors # <<>>
       THEN [exc |-> "ValidationError", errors |-> errors]
       ELSE Returned(values3)

\* The urls a section may list: issues and pull requests of the host and of
\* another host, without a number, under another heading, without a
\* repository, one level deeper, without a scheme, with a number that is
\* none, and with a query string.
IssueUrls ==
    {<<"https:", "//", "github.com", "/", "o", "/", "r", "/", "issues", "/",
       "1">>,
     <<"https:", "//", "github.com", "/", "o", "/", "r", "/", "pull", "/",
       "42">>,
     <<"https:", "//", "ghe.example", "/", "o", "/", "r", "/", "issues", "/",
       "1">>,
     <<"https:", "//", "github.com", "/", "o", "/", "r", "/", "issues", "/">>,
     <<"https:", "//", "github.com", "/", "o", "/", "r", "/", "wiki", "/",
       "1">>,
     <<"https:", "//", "github.com", "/", "o", "/", "issues", "/", "1">>,
     <<"https:", "//", "github.com", "/", "org", "/", "team", "/", "r", "/",
       "issues", "/", "1">>,
     <<"github.com", "/", "o", "/", "r", "/", "issues", "/", "1">>,
     <<"https:", "//", "github.com", "/", "o", "/", "r", "/", "issues", "/",
       "x1">>,
     <<"https:", "//", "github.com", "/", "o", "/", "r", "/", "issues", "/",
       "1", "?", "tab=x">>}

\* The sections of a github target, with the defaults of github.py:25-42
\* among them.
GithubSections ==
    {[username |-> u, query |-> q, include_user_repos |-> i, host |-> h,
      issue_urls |-> urls] :
        u \in {"", "me"},
        q \in {"", "is:open"},
        i \in BOOLEAN,
        h \in {<<"github.com">>, <<"ghe.example">>},
        urls \in UNION {[1..n -> IssueUrls] : n \in 0..MaxUrls}}

InitGithubConfig ==
    /\ PullIdle
    /\ NormalizerIdle
    /\ GithubIdle
    /\ ServicesIdle
    /\ StoreIdle
    /\ \E values \in GithubSections :
          arg = [fn |-> "GithubConfig", values |-> values]
    /\ result = Pending

\* GithubConfig(**section)
validate ==
    /\ arg.fn = "GithubConfig"
    /\ result = Pending
    /\ result' = GithubConfigValidate(arg.values)
    /\ UNCHANGED <<arg, pullVars, normVars, ghVars, svcVars, dbVars>>

NextGithubConfig == validate

SpecGithubConfig == InitGithubConfig /\ [][NextGithubConfig]_vars

-----------------------------------------------------------------------------
(* Properties of pull                                                      *)

\* p is between the start of aggregate_issues and the end of synchronize.
Synchronizing(p) == pc[p] \in {"aggregate", "synchronize"}

\* C1: of the pull processes that share a data path, at most one is between
\* the start of aggregate_issues and the end of synchronize at any time, and
\* the one that is holds the lock file.
C1_MutualExclusion ==
    /\ \A p, q \in Procs : Synchronizing(p) /\ Synchronizing(q) => p = q
    /\ \A p \in Procs : Synchronizing(p) => lockfile = p

\* One pull synchronizes while another has been waiting for the lock.
C1_Witness ==
    \E p, q \in Procs :
        /\ p # q
        /\ pc[p] = "synchronize"
        /\ pc[q] = "acquire"
        /\ waited[q] > 0

\* C2: a pull whose acquire timed out has called neither aggregate_issues nor
\* synchronize, has not written to the store, has logged the critical message
\* about the lock file and has exited with status 1; and no pull waits for
\* the lock longer than the timeout.
C2_LockTimeoutIsFatal ==
    \A p \in Procs :
        /\ waited[p] <= LockTimeoutSecs
        /\ exc[p] = "LockTimeout" =>
              /\ pc[p] = "exited"
              /\ exitStatus[p] = 1
              /\ called[p] = {"load_config", "acquire"}
              /\ ~wrote[p]
              /\ "Your taskrc repository is currently locked" \in logged[p]

\* A pull has given up on the lock while another pull holds it.
C2_Witness ==
    \E p \in Procs :
        /\ exc[p] = "LockTimeout"
        /\ pc[p] = "exited"
        /\ lockfile \notin {NoProc, p}

\* C3: a pull that finds the lock file in place leaves acquire only by the
\* lock error, and then stays exited (no retry); the lock file of a holder
\* is removed only by that holder's own release or, when the holder is dead,
\* by the user removing the file; so a stale lock fails every pull until it
\* is cleared by hand.
C3_StaleLockStays ==
    [][ /\ \A p \in Procs :
              (pc[p] = "acquire" /\ lockfile # NoProc /\ pc'[p] # "acquire") =>
                  /\ pc'[p] = "exited"
                  /\ exc'[p] = "LockTimeout"
                  /\ lockfile' = lockfile
        /\ \A p \in Procs : pc[p] = "exited" => pc'[p] = "exited"
        /\ (lockfile # NoProc /\ lockfile' # lockfile) =>
              \/ pc[lockfile] = "release" /\ pc'[lockfile] = "finish"
              \/ pc[lockfile] = "dead" /\ cleared' = cleared + 1
      ]_vars

\* The holder of the lock is dead, nobody cleared the lock file, and a later
\* pull has failed with the lock error.
C3_Witness ==
    /\ lockfile # NoProc
    /\ pc[lockfile] = "dead"
    /\ cleared = 0
    /\ \E p \in Procs : pc[p] = "exited" /\ exc[p] = "LockTimeout"

AdapterFailed(p) == \E t \in Targets : targetState[p][t] = "failed"

C9_ConfigFirst ==
    \A p \in Procs :
        /\ (called[p] \ {"load_config"} # {} \/ lockfile = p \/ wrote[p]
              \/ \E t \in Targets : targetState[p][t] # "idle")
              => config[p] = "loaded"
        /\ config[p] = "failed" =>
              /\ pc[p] = "exited"
              /\ exitStatus[p] = 1
              /\ called[p] = {"load_config"}
              /\ \A t \in Targets : targetState[p][t] = "idle"
              /\ ~wrote[p]
              /\ lockfile # p

\* One pull failed to load its configuration while the lock was free, and
\* another pull went on to synchronize.
C9_Witness ==
    \E p, q \in Procs :
        /\ config[p] = "failed"
        /\ exc[p] = "OSError"
        /\ pc[p] = "exited"
        /\ pc[q] = "synchronize"

-----------------------------------------------------------------------------
(* Properties of normalization                                             *)

\* The content of the Logseq block has a SCHEDULED or DEADLINE line.
HasDateLine(record) ==
    \E n \in 1..Len(record.content) :
        \/ StartsWith(record.content[n], <<"SCHEDULED:", " ">>)
        \/ StartsWith(record.content[n], <<"DEADLINE:", " ">>)

\* C5: priority mapping is total.  Whatever raw priority a Trac ticket or a
\* Logseq block carries, in PRIORITY_MAP or not, to_taskwarrior does not
\* raise and the priority of the task is L, M, H or the configured default.
C5_PriorityMappingIsTotal ==
    (/\ task # Pending
     /\ issue_obj.service \in {"trac", "logseq"}
     /\ Has(issue_obj.record, "priority"))
        => /\ task.exc = "none"
           /\ task.value.priority \in
                 {"L", "M", "H", issue_obj.config.default_priority}

\* C6: a record without a priority gets the configured default priority.
\* This is claimed of Trac tickets and Logseq blocks that carry no priority
\* field, and of every GitHub issue.
C6_AbsentPriorityIsDefault ==
    (/\ task # Pending
     /\ issue_obj.service \in {"trac", "logseq", "github"}
     /\ \/ issue_obj.service = "github"
        \/ ~Has(issue_obj.record, "priority"))
        => /\ task.exc = "none"
           /\ task.value.priority = issue_obj.config.default_priority

\* C7: a SCHEDULED or DEADLINE line never aborts normalization.  Whatever
\* follows the prefix, to_taskwarrior returns a task; its date is the parsed
\* date, or null after a warning was logged.
C7_DateLineNeverRaises ==
    (/\ task # Pending
     /\ issue_obj.service = "logseq"
     /\ HasDateLine(issue_obj.record))
        => /\ task.exc = "none"
           /\ (task.value.scheduled = None /\ task.value.due = None)
                 => task.warned

\* C10: the UNIQUE_KEY fields of the task are the source values verbatim:
\* tracurl is the record's url, bitbucketurl the extra url, githuburl the
\* record's html_url and githubtype the extra type, logseqid and logsequuid
\* the record's id and uuid.  Trac's project, annotations, summary, number
\* and component are copied unchanged as well.
C10_UniqueKeyVerbatim ==
    task # Pending =>
        CASE issue_obj.service = "trac" ->
                /\ task.exc = "none"
                /\ task.value.tracurl = issue_obj.record.url
                /\ task.value.project = issue_obj.extra.project
                /\ task.value.annotations = issue_obj.extra.annotations
                /\ task.value.tracsummary = issue_obj.record.summary
                /\ task.value.tracnumber = issue_obj.record.number
                /\ task.value.traccomponent = issue_obj.record.component
          [] issue_obj.service = "bitbucket" ->
                /\ task.exc = "none"
                /\ task.value.bitbucketurl = issue_obj.extra.url
          [] issue_obj.service = "github" ->
                /\ task.exc = "none"
                /\ task.value.githuburl = issue_obj.record.html_url
                /\ task.value.githubtype = issue_obj.extra.type
          [] issue_obj.service = "logseq" ->
                task.exc = "none" =>
                    /\ task.value.logseqid = issue_obj.record.id
                    /\ task.value.logsequuid = issue_obj.record.uuid
          [] OTHER -> TRUE

\* A Trac ticket has been normalized, its url is now the task's tracurl.
C10_Witness ==
    /\ task # Pending
    /\ issue_obj.service = "trac"
    /\ task.exc = "none"
    /\ task.value.tracurl = "https://x/ticket/204"
    /\ task.value.tracnumber = 204

-----------------------------------------------------------------------------
(* Properties of GithubService.issues()                                    *)

\* The values of the UNIQUE_KEY fields (githuburl, githubtype) of a yielded
\* Issue.
GhUniqueKey(obj) ==
    LET t == GithubToTaskwarrior(obj.record, obj.extra, ghConfig) IN
    <<t.value.githuburl, t.value.githubtype>>

\* The order of the fetch paths in issues().
GhPathRank ==
    [query |-> 1, involves |-> 1, owned |-> 2, assigned |-> 3, issue_urls |-> 4]

\* The fetch paths that brought item i into issues().
GhFetchedBy(i) ==
    LET name == GhRepoOf(i)[2] IN
    (IF ghConfig.query # "" /\ i \in ghSearch THEN {"query"} ELSE {})
    \cup (IF ghConfig.query = "" /\ ghConfig.involved_issues /\ i \in ghSearch
          THEN {"involves"} ELSE {})
    \cup (IF /\ ghConfig.include_user_repos
             /\ GhRepoOf(i)[1] = ghConfig.username
             /\ IF ghConfig.include_repos # <<>>
                THEN \E n \in 1..Len(ghConfig.include_repos) :
                        ghConfig.include_repos[n] = name
                ELSE GhFilterRepoName(name, ghConfig)
          THEN {"owned"} ELSE {})
    \cup (IF /\ ghConfig.include_user_issues
             /\ i \in ghAssigned
             /\ GhFilterRepoName(name, ghConfig)
          THEN {"assigned"} ELSE {})
    \cup (IF /\ \E n \in 1..Len(ghConfig.issue_urls) : ghConfig.issue_urls[n] = i
             /\ GhFilterRepoName(name, ghConfig)
          THEN {"issue_urls"} ELSE {})

\* C4: issues() yields one Issue per GitHub item, however many fetch paths
\* returned the item: no two yielded issues have the same githuburl and
\* githubtype, and the one yielded comes from the last of the paths
\* (query or involvement, owned repos, directly assigned, issue_urls) that
\* returned the item.
C4_OneIssuePerItem ==
    /\ \A m, n \in 1..Len(yielded) :
          m # n => GhUniqueKey(yielded[m]) # GhUniqueKey(yielded[n])
    /\ \A n \in 1..Len(yielded) :
          \A path \in GhFetchedBy(yielded[n].record.number) :
              GhPathRank[path] <= GhPathRank[yielded[n].record.via]

-----------------------------------------------------------------------------
(* Properties of the issues() of Trac, Bitbucket and Logseq                *)

\* The values of the UNIQUE_KEY fields of a yielded Issue: (tracurl),
\* (bitbucketurl), (logseqid, logsequuid); of a Logseq block whose
\* to_taskwarrior raises, the id and uuid the fields are read from.
UniqueKey(obj) ==
    CASE svc.service = "trac" ->
            <<TracToTaskwarrior(obj.record, obj.extra, svc.config).value.tracurl>>
      [] svc.service = "bitbucket" ->
            <<BitbucketToTaskwarrior(obj.record, obj.extra,
                                     svc.config).value.bitbucketurl>>
      [] svc.service = "logseq" ->
            LET outcome == LogseqToTaskwarrior(obj.record, obj.extra,
                                               svc.config)
            IN IF outcome.exc = "none"
               THEN <<outcome.value.logseqid, outcome.value.logsequuid>>
               ELSE <<obj.record.id, obj.record.uuid>>

\* C11: within one run of a service's issues(), no two yielded issues have
\* the same values of the UNIQUE_KEY fields: two Trac tickets never share a
\* tracurl, two Bitbucket items (issues or pull requests) never share a
\* bitbucketurl, two Logseq blocks never share (logseqid, logsequuid).
C11_UniqueKeysAreDistinct ==
    \A m, n \in 1..Len(svcYielded) :
        m # n => UniqueKey(svcYielded[m]) # UniqueKey(svcYielded[n])

-----------------------------------------------------------------------------
(* Properties of GithubIssue.to_taskwarrior                                *)

\* C12: to_taskwarrior of a GitHub issue whose milestone is null does not
\* raise and gives a null githubmilestone; with a milestone the field is the
\* milestone's title; a record without created_at, updated_at, closed_at,
\* labels, state or draft gets null dates, no tags, the state '' and the
\* draft 0.
C12_MissingOptionalFields ==
    (task # Pending /\ issue_obj.service = "github") =>
        /\ task.exc = "none"
        /\ task.value.githubmilestone =
              (IF issue_obj.record.milestone = <<>> THEN None
               ELSE issue_obj.record.milestone.title)
        /\ ~Has(issue_obj.record, "created_at") =>
              task.value.entry = None /\ task.value.githubcreatedon = None
        /\ ~Has(issue_obj.record, "updated_at") =>
              task.value.githubupdatedat = None
        /\ ~Has(issue_obj.record, "closed_at") =>
              task.value.end = None /\ task.value.githubclosedon = None
        /\ ~Has(issue_obj.record, "labels") => task.value.tags = <<>>
        /\ ~Has(issue_obj.record, "state") => task.value.githubstate = ""
        /\ ~Has(issue_obj.record, "draft") => task.value.githubdraft = 0

\* A GitHub issue with a null milestone and none of the optional fields has
\* been normalized.
C12_Witness ==
    /\ task # Pending
    /\ issue_obj.service = "github"
    /\ issue_obj.record.milestone = <<>>
    /\ DOMAIN issue_obj.record \cap DOMAIN GithubOptional = {}
    /\ task.exc = "none"
    /\ task.value.githubmilestone = None
    /\ task.value.githubdraft = 0

-----------------------------------------------------------------------------
(* Properties of TracIssue                                                 *)

C14_TracIssueIsFaithful ==
    svc.service = "trac" =>
        \A n \in 1..Len(svcYielded) :
            LET t == TracToTaskwarrior(svcYielded[n].record,
                                       svcYielded[n].extra, svc.config)
            IN /\ t.exc = "none"
               /\ \E id \in svc.tickets :
                     LET ticket == TracAttributes(id)
                         comments ==
                             SelectSeq(TracChangeLog(id),
                                       LAMBDA e : e.field = "comment")
                     IN /\ t.value.tracnumber = id
                        /\ t.value.tracurl =
                              <<"https://", svc.config.base_uri, "/ticket/", id>>
                        /\ t.value.project = svc.config.target
                        /\ t.value.priority =
                              (IF Has(TracPriorityMap, ticket.priority)
                               THEN TracPriorityMap[ticket.priority]
                               ELSE svc.config.default_priority)
                        /\ Len(t.value.annotations) = Len(comments)
                        /\ \A c \in 1..Len(comments) :
                              t.value.annotations[c] =
                                 <<"@", comments[c].author, " - ",
                                   comments[c].newvalue>>

\* issues() has yielded ticket 1, whose changelog has a comment and a status
\* change, and ticket 2, whose changelog is empty.
C14_Witness ==
    /\ svc.service = "trac"
    /\ Len(svcYielded) = 2
    /\ svcYielded[1].record.number = 1
    /\ Len(svcYielded[1].extra.annotations) = 1
    /\ svcYielded[2].record.number = 2
    /\ svcYielded[2].extra.annotations = <<>>

-----------------------------------------------------------------------------
(* Properties of synchronize                                               *)

\* C15: when synchronize has run for real and runs again with the same
\* aggregated issue set, the second run decides no create, no update and no
\* retirement and writes nothing to the store.
C15_SecondRunWritesNothing ==
    (/\ Len(history) = 2
     /\ ~history[1].dry_run
     /\ history[2].issues = history[1].issues)
    => /\ history[2].mutations = 0
       /\ history[2].decisions.create = {}
       /\ history[2].decisions.update = {}
       /\ history[2].decisions.retire = {}

\* Two real runs with the same issue set, the first of which updated a task
\* and retired another.
C15_Witness ==
    /\ Len(history) = 2
    /\ ~history[1].dry_run
    /\ ~history[2].dry_run
    /\ history[2].issues = history[1].issues
    /\ history[1].decisions.update # {}
    /\ history[1].decisions.retire # {}
    /\ history[2].mutations = 0

\* C16: in a real run, every managed open task whose unique key no incoming
\* issue has is marked done, and every incoming issue without a matching
\* open task is decided a create, not an update, and its task is added to
\* the store.
C16_RetireAndCreate ==
    [][LET run == history'[Len(history')] IN
       ~run.dry_run =>
          /\ \A n \in 1..Len(store) :
                (/\ store[n].managed
                 /\ store[n].status = "pending"
                 /\ \A i \in run.issues : i.key # store[n].key)
                => /\ n \in run.decisions.retire
                   /\ store'[n] = [store[n] EXCEPT !.status = "completed"]
          /\ \A i \in run.issues :
                FindOpenTask(store, i.key) = 0
                => /\ i.key \in run.decisions.create
                   /\ i.key \notin run.decisions.update
                   /\ \E n \in (Len(store) + 1)..Len(store') :
                         store'[n] = [managed |-> TRUE, key |-> i.key,
                                      status |-> "pending",
                                      fields |-> i.fields]]_vars

\* A real run has retired the task of a key that did not come in and
\* created the task of a key that had no open task.
C16_Witness ==
    /\ history # <<>>
    /\ ~history[Len(history)].dry_run
    /\ history[Len(history)].decisions.retire # {}
    /\ history[Len(history)].decisions.create # {}
    /\ \E n \in 1..Len(store) :
          store[n].managed /\ store[n].status = "completed"
    /\ \A i \in incoming : FindOpenTask(store, i.key) # 0

\* C17: no run of synchronize changes a task that is not managed by the
\* tool: it stays in the store, at its place, with its status and fields.
C17_UnmanagedTasksUntouched ==
    [][\A n \in 1..Len(store) :
          ~store[n].managed => (n <= Len(store') /\ store'[n] = store[n])]_vars

\* A real run has retired a managed task of a store that also holds a
\* pending task of the user.
C17_Witness ==
    /\ history # <<>>
    /\ ~history[Len(history)].dry_run
    /\ history[Len(history)].decisions.retire # {}
    /\ \E n \in 1..Len(store) :
          ~store[n].managed /\ store[n].status = "pending"

\* C18: a dry run leaves the store as it is, and the decisions it computes
\* are those the real run on the same issue set and the same store makes.
C18_DryRun ==
    [][LET runs == history' IN
       /\ runs[Len(runs)].dry_run => store' = store
       /\ (/\ Len(runs) = 2
           /\ runs[1].dry_run
           /\ ~runs[2].dry_run
           /\ runs[2].issues = runs[1].issues)
          => runs[2].decisions = runs[1].decisions]_vars

\* A dry run that decided to write, then the real run on the same issues.
C18_Witness ==
    /\ Len(history) = 2
    /\ history[1].dry_run
    /\ history[1].mutations = 0
    /\ history[1].decisions.create # {}
    /\ ~history[2].dry_run
    /\ history[2].issues = history[1].issues
    /\ history[2].mutations > 0

-----------------------------------------------------------------------------
(* Properties of the lock around aggregate_issues and synchronize          *)

\* lockfile.acquire() of p returned: p has held the lock.
Acquired(p) == "acquire" \in called[p] /\ exc[p] # "LockTimeout"

\* C19: a pull that acquired the lock releases it once: the lock leaves a
\* living process only in lockfile.release(), which is reached only after
\* synchronize was called and ended or after aggregate_issues or synchronize
\* raised, and which is not called again; a process that has left the
\* finally clause or has exited does not hold the lock, and if a
\* RuntimeError was raised it exits with status 1.
C19_LockReleasedOnce ==
    /\ [](\A p \in Procs :
            /\ (pc[p] \in {"finish", "exited"} /\ Acquired(p))
               => (lockfile # p /\ "release" \in called[p])
            /\ (pc[p] = "exited" /\ Acquired(p) /\ exc[p] = "RuntimeError")
               => exitStatus[p] = 1
            /\ "release" \in called[p] => pc[p] \in {"finish", "exited"}
            /\ pc[p] = "release"
               => ("synchronize" \in called[p] \/ exc[p] # "none"))
    /\ [][\A p \in Procs :
            (lockfile = p /\ lockfile' # p /\ pc[p] # "dead")
            => /\ pc[p] = "release"
               /\ pc'[p] = "finish"
               /\ "release" \notin called[p]
               /\ "release" \in called'[p]
               /\ lockfile' = NoProc]_vars

\* A pull whose synchronize raised RuntimeError has exited with status 1,
\* having released the lock.
C19_Witness ==
    \E p \in Procs :
        /\ pc[p] = "exited"
        /\ "synchronize" \in called[p]
        /\ exc[p] = "RuntimeError"
        /\ exitStatus[p] = 1
        /\ "release" \in called[p]
        /\ lockfile # p

-----------------------------------------------------------------------------
(* Properties of GithubService.include                                     *)

\* The assignment filter of a plain issue: without only_if_assigned every
\* item passes; with it, the items assigned to that user pass, and the
\* unassigned ones if also_unassigned is set.
PassesAssignmentFilter(item, cfg) ==
    \/ cfg.only_if_assigned = ""
    \/ item.assignee # <<>> /\ item.assignee.login = cfg.only_if_assigned
    \/ item.assignee = <<>> /\ cfg.also_unassigned

\* C20: include() leaves a pull request out whenever exclude_pull_requests
\* is set; otherwise it takes the pull request in when filter_pull_requests
\* is not set, whatever only_if_assigned says; only with
\* filter_pull_requests set does the pull request go through the assignment
\* filter of a plain issue.
C20_PullRequestRule ==
    (result # Pending /\ arg.fn = "include"
        /\ Has(arg.issue.issue, "pull_request"))
    => /\ arg.cfg.exclude_pull_requests => result.value = FALSE
       /\ (~arg.cfg.exclude_pull_requests /\ ~arg.cfg.filter_pull_requests)
          => result.value = TRUE
       /\ (~arg.cfg.exclude_pull_requests /\ arg.cfg.filter_pull_requests)
          => result.value = PassesAssignmentFilter(arg.issue.issue, arg.cfg)

\* include() took in a pull request assigned to someone else although
\* only_if_assigned is set, because filter_pull_requests is not.
C20_Witness ==
    /\ result # Pending
    /\ arg.fn = "include"
    /\ Has(arg.issue.issue, "pull_request")
    /\ arg.issue.issue.assignee = [login |-> "other"]
    /\ arg.cfg.only_if_assigned = "me"
    /\ ~arg.cfg.exclude_pull_requests
    /\ ~arg.cfg.filter_pull_requests
    /\ result.value = TRUE

-----------------------------------------------------------------------------
(* Properties of the include() of Trac, Bitbucket and GitHub               *)

\* The owner of an item, None if it has none: Trac's 'owner' unless empty,
\* the username of Bitbucket's assignee, the login of GitHub's assignee.
OwnerOf(service, item) ==
    CASE service = "trac" ->
            IF Has(item, "owner") /\ item.owner # "" THEN item.owner ELSE None
      [] service = "bitbucket" ->
            IF Has(item, "assignee") /\ item.assignee # <<>>
                  /\ Has(item.assignee, "username")
            THEN item.assignee.username ELSE None
      [] service = "github" ->
            IF item.assignee # <<>> THEN item.assignee.login ELSE None

\* C21: for an item that reaches the assignment check (every Trac or
\* Bitbucket item, every GitHub issue, and a GitHub pull request under
\* filter_pull_requests without exclude_pull_requests), include() is true
\* iff only_if_assigned is not configured, or the owner is only_if_assigned,
\* or there is no owner and also_unassigned is set; Trac's empty owner is no
\* owner.
C21_OwnershipFilter ==
    (/\ result # Pending
     /\ arg.fn = "include"
     /\ (arg.service = "github" /\ Has(arg.issue.issue, "pull_request"))
        => (arg.cfg.filter_pull_requests /\ ~arg.cfg.exclude_pull_requests))
    => result.value =
          (\/ arg.cfg.only_if_assigned = ""
           \/ OwnerOf(arg.service, arg.issue.issue) = arg.cfg.only_if_assigned
           \/ /\ OwnerOf(arg.service, arg.issue.issue) = None
              /\ arg.cfg.also_unassigned)

\* Trac's include() let a ticket with an empty owner pass because
\* also_unassigned is set.
C21_Witness ==
    /\ result # Pending
    /\ arg.fn = "include"
    /\ arg.service = "trac"
    /\ Has(arg.issue.issue, "owner")
    /\ arg.issue.issue.owner = ""
    /\ arg.cfg.only_if_assigned = "me"
    /\ arg.cfg.also_unassigned
    /\ result.value = TRUE

-----------------------------------------------------------------------------
(* Properties of the repository filters                                    *)

\* C22: exclude_repos goes before include_repos: no issue that
\* GithubService.issues() yields from the owned-repo, directly-assigned or
\* issue_urls path is of a repository named in exclude_repos, also when
\* include_repos names it too; with a non-empty include_repos these paths
\* use the listed repositories only.
C22_ExcludeBeforeInclude ==
    \A n \in 1..Len(yielded) :
        LET name == GhRepoOf(yielded[n].record.number)[2] IN
        yielded[n].record.via \in {"owned", "assigned", "issue_urls"}
        => /\ \A e \in 1..Len(ghConfig.exclude_repos) :
                 ghConfig.exclude_repos[e] # name
           /\ ghConfig.include_repos # <<>>
              => \E i \in 1..Len(ghConfig.include_repos) :
                    ghConfig.include_repos[i] = name

-----------------------------------------------------------------------------
(* Properties of BitbucketService.issues()                                 *)

\* A yielded Bitbucket item is a pull request.
IsPullRequest(obj) == obj.record.links.html.href[6] = "pull-requests"

\* C23: BitbucketService.issues() yields no closed item: the status of a
\* yielded issue (its state, when the API reports 'state' and no 'status')
\* is not resolved, duplicate, wontfix, invalid or closed, and the state of
\* a yielded pull request is not rejected or fulfilled.
C23_NoClosedItem ==
    svc.service = "bitbucket" =>
        \A n \in 1..Len(svcYielded) :
            LET record == svcYielded[n].record
                closed == {"resolved", "duplicate", "wontfix", "invalid",
                           "closed"}
            IN IF IsPullRequest(svcYielded[n])
               THEN /\ record.state \notin {"rejected", "fulfilled"}
                    /\ svc.pull_requests[record.links.html.href[5]]
                          \notin {"rejected", "fulfilled"}
               ELSE /\ Has(record, "status") => record.status \notin closed
                    /\ ~Has(record, "status") => record.state \notin closed
                    /\ svc.issues[record.links.html.href[5]] \notin closed

\* issues() is through with a workspace that has a resolved issue and a
\* fulfilled pull request: it has yielded the open issue and the open pull
\* request only.
C23_Witness ==
    /\ svc.service = "bitbucket"
    /\ svc.config.include_repos = <<>>
    /\ svc.config.exclude_repos = <<>>
    /\ svc.config.only_if_assigned = ""
    /\ svc.status_key = "status"
    /\ svc.issues["repo"] = "resolved"
    /\ svc.issues["pullrequests"] = "new"
    /\ svc.pull_requests["repo"] = "fulfilled"
    /\ svc.pull_requests["pullrequests"] = "OPEN"
    /\ svcPhase = "pull_requests"
    /\ svcIssues = <<>>
    /\ Len(svcYielded) >= 2
    /\ \E n \in 1..Len(svcYielded) : IsPullRequest(svcYielded[n])
    /\ \E n \in 1..Len(svcYielded) : ~IsPullRequest(svcYielded[n])

\* C28: BitbucketService.issues() yields pull requests only when
\* include_merge_requests is enabled: a configuration that leaves it unset
\* yields none; and every pull request it yields comes after all the
\* issues.
C28_PullRequestsLastAndOptional ==
    svc.service = "bitbucket" =>
        /\ (\E n \in 1..Len(svcYielded) : IsPullRequest(svcYielded[n]))
           => svc.config.include_merge_requests = "True"
        /\ \A m, n \in 1..Len(svcYielded) :
              (m < n /\ IsPullRequest(svcYielded[m]))
              => IsPullRequest(svcYielded[n])
        /\ (\E n \in 1..Len(svcYielded) : IsPullRequest(svcYielded[n]))
           => svcPhase = "pull_requests"

-----------------------------------------------------------------------------
(* Properties of pagination                                                *)

\* The items of every page of the collection, in page order.
RECURSIVE AllItems(_, _)
AllItems(pages, n) ==
    IF n = 0 THEN <<>> ELSE AllItems(pages, n - 1) \o PageItems(pages, n)

Paging == arg.fn \in {"get_collection", "_getter"}

\* C24: a paged fetch of Bitbucket (get_collection) or GitHub (_getter, with
\* or without a subkey) asks for each page of the chain exactly once, in
\* page order, stops at the response that carries no next link, delivers
\* the items of all the pages in page order, and comes to an end: every
\* turn of the loop asks for one more page, of which there are no more than
\* the chain has, and the call returns once no turn is left.
C24_PagingComplete ==
    /\ [](Paging /\ result # Pending =>
            /\ result.value = AllItems(arg.pages, Len(arg.pages))
            /\ arg.requested =
                   [n \in 1..Len(arg.pages) |-> <<PageUrls[n]>>])
    /\ [](Paging =>
            /\ Len(arg.requested) <= Len(arg.pages)
            /\ arg.results = AllItems(arg.pages, Len(arg.requested)))
    /\ [](Paging /\ result = Pending /\ arg.fn = "get_collection" =>
            arg.url = None \/ PageOf(arg.url) = Len(arg.requested) + 1)
    /\ [](Paging /\ result = Pending /\ arg.fn = "_getter"
            /\ LinkHas(arg.link, <<"next">>) =>
            PageOf(LinkGet(arg.link, <<"next">>)) = Len(arg.requested) + 1)
    /\ [][Paging =>
            \/ Len(arg'.requested) = Len(arg.requested) + 1
            \/ result = Pending /\ result' # Pending]_vars

\* A GitHub fetch of MaxPages pages, read through the Link headers, has
\* returned the items of a collection whose last page is not empty.
C24_Witness ==
    /\ arg.fn = "_getter"
    /\ result # Pending
    /\ Len(arg.pages) = MaxPages
    /\ arg.pages[MaxPages] # <<>>
    /\ Len(arg.requested) = MaxPages

-----------------------------------------------------------------------------
(* Properties of the Logseq markers                                        *)

\* C25: to_taskwarrior of every block LogseqService.issues() hands over, a
\* block whose marker is listed in the configured task_state, does not
\* raise and yields a status among pending, waiting, completed, deleted.
C25_FetchedBlockHasStatus ==
    svc.service = "logseq" =>
        \A n \in 1..Len(svcYielded) :
            LET outcome == LogseqToTaskwarrior(svcYielded[n].record,
                                               svcYielded[n].extra,
                                               svc.config)
            IN /\ outcome.exc = "none"
               /\ outcome.value.status \in
                      {"pending", "waiting", "completed", "deleted"}

\* The same, for the blocks whose marker STATE_MAP has.
C25_KnownMarkerHasStatus ==
    svc.service = "logseq" =>
        \A n \in 1..Len(svcYielded) :
            Has(LogseqStateMap, svcYielded[n].record.marker) =>
                LET outcome == LogseqToTaskwarrior(svcYielded[n].record,
                                                   svcYielded[n].extra,
                                                   svc.config)
                IN /\ outcome.exc = "none"
                   /\ outcome.value.status \in
                          {"pending", "waiting", "completed", "deleted"}

-----------------------------------------------------------------------------
(* Properties of the Logseq annotations                                    *)

IsDateLine(line) ==
    StartsWith(line, <<"SCHEDULED:", " ">>)
        \/ StartsWith(line, <<"DEADLINE:", " ">>)

\* The lines after the first that are no date lines, escaped, in order.
NotesOf(content, cfg) ==
    LET notes == SelectSeq(Tail(content), LAMBDA line : ~IsDateLine(line))
    IN [n \in 1..Len(notes) |-> UnescapeContent(notes[n], cfg)]

\* C26: for every Logseq block content of one or more lines, producing the
\* annotations does not raise, the annotations are the escaped lines after
\* the first that do not start with 'SCHEDULED: ' or 'DEADLINE: ', in order,
\* and such lines set the scheduled and due dates.
C26_AnnotationsAreLinesAfterTitle ==
    issue_obj # NoIssue /\ issue_obj.service = "logseq" /\ task # Pending =>
        /\ task.exc = "none"
        /\ task.value.annotations =
               NotesOf(issue_obj.record.content, issue_obj.config)
        /\ (\E n \in 1..Len(issue_obj.record.content) :
                StartsWith(issue_obj.record.content[n], <<"SCHEDULED:", " ">>))
               <=> task.value.scheduled # None
        /\ (\E n \in 1..Len(issue_obj.record.content) :
                StartsWith(issue_obj.record.content[n], <<"DEADLINE:", " ">>))
               <=> task.value.due # None

\* The same, for the contents whose first line is no date line.
C26_HoldsAfterPlainTitle ==
    /\ issue_obj # NoIssue
    /\ issue_obj.service = "logseq"
    /\ ~IsDateLine(issue_obj.record.content[1])
    => C26_AnnotationsAreLinesAfterTitle

-----------------------------------------------------------------------------
(* Properties of the GithubConfig validation                               *)

Validated == arg.fn = "GithubConfig" /\ result # Pending

\* A path of the form /<owner>/<repo>/(issues|pull)/<number>.
IsIssuePath(path) ==
    LET segments == Split(path, "/") IN
    /\ Len(segments) = 5
    /\ segments[1] = <<>>
    /\ segments[2] # <<>>
    /\ segments[3] # <<>>
    /\ segments[4] \in {<<"issues">>, <<"pull">>}
    /\ segments[5] # <<>>
    /\ \A n \in 1..Len(segments[5]) : segments[5][n] \in DigitAtoms

\* C27: a section with neither username nor query is rejected.
C27_NeitherUsernameNorQuery ==
    Validated /\ arg.values.username = "" /\ arg.values.query = ""
        => result.exc = "ValidationError"

\* C27: a section with include_user_repos and no username is rejected.
C27_UserReposNeedUsername ==
    Validated /\ arg.values.include_user_repos /\ arg.values.username = ""
        => result.exc = "ValidationError"

\* C27: a section with an issue_urls entry of another host is rejected.
C27_HostOfIssueUrls ==
    Validated
        /\ (\E n \in 1..Len(arg.values.issue_urls) :
                urlparse(arg.values.issue_urls[n]).netloc # arg.values.host)
        => result.exc = "ValidationError"

\* C27: every accepted section stores issue_urls as the paths of its urls.
C27_StoresPaths ==
    Validated /\ result.exc = "none"
        => result.value.issue_urls =
               [n \in 1..Len(arg.values.issue_urls) |->
                   urlparse(arg.values.issue_urls[n]).path]

\* C27: the validation of a github section rejects the section with neither
\* username nor query, the section with include_user_repos and no username,
\* and the section with an issue_urls entry whose host is not the configured
\* host or whose path is not /<owner>/<repo>/(issues|pull)/<number>; an
\* accepted section stores issue_urls as url paths only.
C27_ConfigIsValidated ==
    /\ C27_NeitherUsernameNorQuery
    /\ C27_UserReposNeedUsername
    /\ C27_HostOfIssueUrls
    /\ C27_StoresPaths
    /\ Validated
          /\ (\E n \in 1..Len(arg.values.issue_urls) :
                  ~IsIssuePath(urlparse(arg.values.issue_urls[n]).path))
          => result.exc = "ValidationError"

====
